---- MODULE Spec2Model ----
(***************************************************************************)
(* A model of lint_sv_blocks.py: the issue store (four category buckets,   *)
(* fail, total_issues), the detectors that scan SystemVerilog files, the   *)
(* report generator and the sequence of calls made by main.                *)
(*                                                                         *)
(* Text is modelled as text: a file is the string of its characters, and   *)
(* every pattern of the source (substring tests, regular expressions,      *)
(* strip, split, join) is an operator that works on the characters.        *)
(***************************************************************************)
EXTENDS Integers, Sequences, FiniteSets, TLC

VARIABLES
    fail,                   \* global fail (line 157)
    total_issues,           \* global total_issues (line 158)
    critical_issues,        \* the four dicts (lines 161-164); a dict is the
    style_issues,           \*   sequence of its items in insertion order,
    best_practice_issues,   \*   each [title, content, solution]
    performance_issues,
    fs,                     \* the file system: path -> bytes, or Unreadable
    argv,                   \* the parsed command line of main
    sv_files,               \* main's sv_files
    pc,                     \* the next statement of main (or "lib": no run)
    ran,                    \* the detector calls of main that have returned
    exit_status,            \* the status given to sys.exit (-1: still running)
    llm_prompt,             \* the text the last call returned ("": None)
    emitted,                \* whether the report was written and printed
    call,                   \* the last library call made and its arguments
    ncalls                  \* the number of library calls made so far

storeVars == <<fail, total_issues, critical_issues, style_issues,
               best_practice_issues, performance_issues>>
runVars == <<fs, argv, sv_files, pc, ran, exit_status, emitted>>
vars == <<fail, total_issues, critical_issues, style_issues,
          best_practice_issues, performance_issues, fs, argv, sv_files, pc,
          ran, exit_status, llm_prompt, emitted, call, ncalls>>

(***************************************************************************)
(* Bounds of the model.                                                    *)
(***************************************************************************)
MaxCalls == 3       \* library calls made in one behaviour of Spec
MaxLines == 2       \* lines of a generated file
MaxFileLines == 3   \* lines of the file under the specification of one file

(***************************************************************************)
(* Characters and strings (Python str).                                    *)
(***************************************************************************)
\* The backquote cannot be written alone in a string literal.
BT == SubSeq("`'", 1, 1)

Lower == {"a","b","c","d","e","f","g","h","i","j","k","l","m",
          "n","o","p","q","r","s","t","u","v","w","x","y","z"}
Upper == {"A","B","C","D","E","F","G","H","I","J","K","L","M",
          "N","O","P","Q","R","S","T","U","V","W","X","Y","Z"}
Digit == {"0","1","2","3","4","5","6","7","8","9"}
\* [a-zA-Z0-9_], which is \w on the ASCII text modelled here
WordChars == Lower \cup Upper \cup Digit \cup {"_"}
\* \s, and the characters str.strip() removes
SpaceChars == {" ", "\t", "\n", "\r", "\f"}

At(s, i) == IF i >= 1 /\ i <= Len(s) THEN SubSeq(s, i, i) ELSE ""
From(s, i) == IF i > Len(s) THEN "" ELSE SubSeq(s, i, Len(s))
Upto(s, i) == IF i < 1 THEN "" ELSE SubSeq(s, 1, i)
IsWordAt(s, i) == At(s, i) \in WordChars
IsSpaceAt(s, i) == At(s, i) \in SpaceChars

\* p occurs in s starting at position i
OccursAt(s, i, p) ==
    /\ i >= 1
    /\ i + Len(p) - 1 <= Len(s)
    /\ SubSeq(s, i, i + Len(p) - 1) = p
Occurs(s, p) == {i \in 1..(Len(s) - Len(p) + 1) : OccursAt(s, i, p)}
\* p in s
Contains(s, p) == \E i \in 1..(Len(s) - Len(p) + 1) : OccursAt(s, i, p)
\* s.startswith(p)
StartsWith(s, p) == OccursAt(s, 1, p)

\* \b between position i-1 and position i
WordBoundary(s, i) == IsWordAt(s, i - 1) # IsWordAt(s, i)
\* the start positions of the matches of \bw\b, w made of word characters
WordOccurs(s, w) ==
    {i \in Occurs(s, w) : WordBoundary(s, i) /\ WordBoundary(s, i + Len(w))}
HasWord(s, w) == WordOccurs(s, w) # {}

\* the first position >= i that holds no character of cs (Len(s)+1 if none)
SkipFwd(s, i, cs) ==
    LET stop == {j \in i..Len(s) : At(s, j) \notin cs}
    IN  IF stop = {} THEN Len(s) + 1
        ELSE CHOOSE j \in stop : \A k \in stop : j <= k
\* the last position <= i that holds no character of cs (0 if none)
SkipBack(s, i, cs) ==
    LET stop == {j \in 1..i : At(s, j) \notin cs}
    IN  IF stop = {} THEN 0
        ELSE CHOOSE j \in stop : \A k \in stop : j >= k

LStrip(s) == From(s, SkipFwd(s, 1, SpaceChars))
\* s.rstrip()
RStrip(s) == Upto(s, SkipBack(s, Len(s), SpaceChars))
\* s.rstrip('\n')
RStripNL(s) == Upto(s, SkipBack(s, Len(s), {"\n"}))
\* s.strip()
Strip(s) == LStrip(RStrip(s))

\* sep.join(parts)
RECURSIVE Join(_, _)
Join(parts, sep) ==
    IF parts = <<>> THEN ""
    ELSE IF Len(parts) = 1 THEN parts[1]
    ELSE parts[1] \o sep \o Join(Tail(parts), sep)

\* "".join(parts)
RECURSIVE Concat(_)
Concat(parts) == IF parts = <<>> THEN "" ELSE parts[1] \o Concat(Tail(parts))

\* the positions of the character c in s, in increasing order
RECURSIVE SortedSeq(_)
SortedSeq(S) ==
    IF S = {} THEN <<>>
    ELSE LET m == CHOOSE x \in S : \A y \in S : x <= y
         IN  <<m>> \o SortedSeq(S \ {m})

\* s.split(sep) for a one-character sep: always at least one part
Split(s, sep) ==
    LET cuts == SortedSeq(Occurs(s, sep))
        n == Len(cuts)
        lo(k) == IF k = 1 THEN 1 ELSE cuts[k - 1] + 1
        hi(k) == IF k = n + 1 THEN Len(s) ELSE cuts[k] - 1
    IN  [k \in 1..(n + 1) |-> IF lo(k) > hi(k) THEN "" ELSE SubSeq(s, lo(k), hi(k))]

\* the lines of a text as file iteration and readlines() give them: each line
\* keeps its "\n"; a last line without "\n" is a line; no empty last line
SplitKeep(s) ==
    LET cuts == SortedSeq(Occurs(s, "\n"))
        n == Len(cuts)
        lo(k) == IF k = 1 THEN 1 ELSE cuts[k - 1] + 1
        whole == [k \in 1..n |-> SubSeq(s, lo(k), cuts[k])]
    IN  IF n = 0 THEN (IF s = "" THEN <<>> ELSE <<s>>)
        ELSE IF cuts[n] = Len(s) THEN whole
        ELSE Append(whole, SubSeq(s, cuts[n] + 1, Len(s)))

\* text mode with newline=None: "\r\n" and a lone "\r" are read as "\n"
RECURSIVE UniversalNewlines(_)
UniversalNewlines(raw) ==
    LET cr == Occurs(raw, "\r")
    IN  IF cr = {} THEN raw
        ELSE LET i == CHOOSE x \in cr : \A y \in cr : x <= y
                 skip == IF At(raw, i + 1) = "\n" THEN i + 2 ELSE i + 1
             IN  Upto(raw, i - 1) \o "\n" \o UniversalNewlines(From(raw, skip))

(***************************************************************************)
(* SECTION 1 and 2: the issue store.                                       *)
(***************************************************************************)
EmptyStore ==
    [fail |-> FALSE, total_issues |-> 0,
     critical_issues |-> <<>>, style_issues |-> <<>>,
     best_practice_issues |-> <<>>, performance_issues |-> <<>>]

\* the store as one value
Store ==
    [fail |-> fail, total_issues |-> total_issues,
     critical_issues |-> critical_issues, style_issues |-> style_issues,
     best_practice_issues |-> best_practice_issues,
     performance_issues |-> performance_issues]

SetStore(st) ==
    /\ fail' = st.fail
    /\ total_issues' = st.total_issues
    /\ critical_issues' = st.critical_issues
    /\ style_issues' = st.style_issues
    /\ best_practice_issues' = st.best_practice_issues
    /\ performance_issues' = st.performance_issues

\* title in d
HasTitle(d, title) == \E k \in 1..Len(d) : d[k].title = title
\* the keys of d, in order
Keys(d) == [k \in 1..Len(d) |-> d[k].title]
\* d[title]
Item(d, title) == d[CHOOSE k \in 1..Len(d) : d[k].title = title]
\* d[title] = {"content": content, "solution": solution}, title not in d
DictInsert(d, title, content, solution) ==
    Append(d, [title |-> title, content |-> content, solution |-> solution])
\* The content replaced by the new report: d[title]["content"] = content
DictAppendContent_replace(d, title, content) ==
    [k \in 1..Len(d) |->
        IF d[k].title = title THEN [d[k] EXCEPT !.content = content] ELSE d[k]]
\* d[title]["content"] += "\n" + content
DictAppendContent(d, title, content) ==
    [k \in 1..Len(d) |->
        IF d[k].title = title
        THEN [d[k] EXCEPT !.content = @ \o "\n" \o content]
        ELSE d[k]]

\* d[title] = {"content": content, "solution": solution}, title in d or not
DictAssign(d, title, content, solution) ==
    IF HasTitle(d, title)
    THEN [k \in 1..Len(d) |->
            IF d[k].title = title
            THEN [title |-> title, content |-> content, solution |-> solution]
            ELSE d[k]]
    ELSE DictInsert(d, title, content, solution)

\* add_critical_issue with "fail = True" written before "if content:"
add_critical_issue_fail_first(st, title, content, solution) ==
    LET st1 == [st EXCEPT !.fail = TRUE]
    IN  IF content # ""
        THEN IF ~HasTitle(st1.critical_issues, title)
             THEN [st1 EXCEPT
                     !.critical_issues = DictInsert(@, title, content, solution),
                     !.total_issues = @ + 1]
             ELSE [st1 EXCEPT
                     !.critical_issues = DictAppendContent(@, title, content)]
        ELSE st1

\* add_critical_issue(title, content, solution), as a function of the store
add_critical_issue(st, title, content, solution) ==
    IF content # ""
    THEN LET st1 == [st EXCEPT !.fail = TRUE]
         IN  IF ~HasTitle(st1.critical_issues, title)
             THEN [st1 EXCEPT
                     !.critical_issues = DictInsert(@, title, content, solution),
                     !.total_issues = @ + 1]
             ELSE [st1 EXCEPT
                     !.critical_issues = DictAppendContent(@, title, content)]
    ELSE st

\* add_style_issue as the template of lines 94-99 has it: the entry is
\* assigned and total_issues incremented at every call with content
add_style_issue_template(st, title, content, solution) ==
    IF content # ""
    THEN [st EXCEPT !.fail = TRUE,
                    !.style_issues = DictAssign(@, title, content, solution),
                    !.total_issues = @ + 1]
    ELSE st

add_style_issue(st, title, content, solution) ==
    IF content # ""
    THEN LET st1 == [st EXCEPT !.fail = TRUE]
         IN  IF ~HasTitle(st1.style_issues, title)
             THEN [st1 EXCEPT
                     !.style_issues = DictInsert(@, title, content, solution),
                     !.total_issues = @ + 1]
             ELSE [st1 EXCEPT
                     !.style_issues = DictAppendContent(@, title, content)]
    ELSE st

\* add_best_practice_issue looking the title up in all four dicts: a title
\* another category holds is taken as known
add_best_practice_issue_any_dict(st, title, content, solution) ==
    IF content # ""
    THEN LET st1 == [st EXCEPT !.fail = TRUE]
         IN  IF /\ ~HasTitle(st1.critical_issues, title)
                /\ ~HasTitle(st1.style_issues, title)
                /\ ~HasTitle(st1.best_practice_issues, title)
                /\ ~HasTitle(st1.performance_issues, title)
             THEN [st1 EXCEPT
                     !.best_practice_issues = DictInsert(@, title, content, solution),
                     !.total_issues = @ + 1]
             ELSE [st1 EXCEPT
                     !.best_practice_issues = DictAppendContent(@, title, content)]
    ELSE st

add_best_practice_issue(st, title, content, solution) ==
    IF content # ""
    THEN LET st1 == [st EXCEPT !.fail = TRUE]
         IN  IF ~HasTitle(st1.best_practice_issues, title)
             THEN [st1 EXCEPT
                     !.best_practice_issues = DictInsert(@, title, content, solution),
                     !.total_issues = @ + 1]
             ELSE [st1 EXCEPT
                     !.best_practice_issues = DictAppendContent(@, title, content)]
    ELSE st

\* add_performance_issue whose append also takes the new solution
add_performance_issue_new_solution(st, title, content, solution) ==
    IF content # ""
    THEN LET st1 == [st EXCEPT !.fail = TRUE]
         IN  IF ~HasTitle(st1.performance_issues, title)
             THEN [st1 EXCEPT
                     !.performance_issues = DictInsert(@, title, content, solution),
                     !.total_issues = @ + 1]
             ELSE [st1 EXCEPT
                     !.performance_issues =
                        [k \in 1..Len(@) |->
                            IF @[k].title = title
                            THEN [@[k] EXCEPT !.content = @ \o "\n" \o content,
                                              !.solution = solution]
                            ELSE @[k]]]
    ELSE st

add_performance_issue(st, title, content, solution) ==
    IF content # ""
    THEN LET st1 == [st EXCEPT !.fail = TRUE]
         IN  IF ~HasTitle(st1.performance_issues, title)
             THEN [st1 EXCEPT
                     !.performance_issues = DictInsert(@, title, content, solution),
                     !.total_issues = @ + 1]
             ELSE [st1 EXCEPT
                     !.performance_issues = DictAppendContent(@, title, content)]
    ELSE st

(***************************************************************************)
(* SECTION 3: generate_llm_prompt.  The text is built as the source builds *)
(* it, one "llm_prompt +=" after the other.  Every interpolated value is   *)
(* computed; the long literal passages (and the emoji of the headings) are *)
(* cut to their first lines.                                               *)
(***************************************************************************)
\* lines 305-312: the set of line.split(':')[0] over the non-empty lines of
\* every issue's content
ContentFileKeys(content) ==
    LET ls == Split(content, "\n")
    IN  {Split(ls[k], ":")[1] : k \in {j \in 1..Len(ls) : ls[j] # ""}}
DictFileKeys(d) == UNION {ContentFileKeys(d[k].content) : k \in 1..Len(d)}
files_with_issues(st) ==
    DictFileKeys(st.critical_issues) \cup DictFileKeys(st.style_issues)
        \cup DictFileKeys(st.best_practice_issues)
        \cup DictFileKeys(st.performance_issues)

\* a code fence
Fence == BT \o BT \o BT

\* lines 314-376
PromptHead(st, files) ==
    "# SystemVerilog Linting Issues\n\n"
    \o "## BEFORE/AFTER - Current vs Desired State\n"
    \o "- " \o ToString(Len(files)) \o " files with " \o ToString(st.total_issues)
    \o " categories of lint violations\n\n"
    \o "## LINTING SUMMARY\n"
    \o "- **Total Files Checked:** " \o ToString(Len(files)) \o "\n"
    \o "- **Total Issue Categories:** " \o ToString(st.total_issues) \o "\n"
    \o "- **Files with Issues:** " \o ToString(Cardinality(files_with_issues(st)))
    \o "\n\n"

\* lines 382-384, 391-393, 445-447, 525-527
ItemText(i, item) ==
    "### " \o ToString(i) \o ". " \o item.title \o "\n\n"
    \o "**Issue:** " \o item.solution \o "\n\n"
    \o "**Affected Files/Lines:**\n" \o Fence \o "\n" \o item.content \o "\n" \o Fence \o "\n\n"

ExampleBraces == "**Example Fix:**\n" \o Fence \o "systemverilog\n// Incorrect (C-style)\n" \o Fence \o "\n\n"
ExampleTabs ==
    "**Fix:** Replace all tabs with 4 spaces. Use your editor's \"Convert Tabs to Spaces\" function.\n\n"
ExampleLongLines == "**Example Fix:**\n" \o Fence \o "systemverilog\n// Too long\n" \o Fence \o "\n\n"
ExamplePorts == "**Example Fix:**\n" \o Fence \o "systemverilog\n// Multiple ports per line\n" \o Fence \o "\n\n"
ExampleDefault == "**Example Fix:**\n" \o Fence \o "systemverilog\n// Missing default\n" \o Fence \o "\n\n"
ExampleComment == "**Example Fix:**\n" \o Fence \o "systemverilog\n// No comment\n" \o Fence \o "\n\n"
ExampleGenerate == "**Example Fix:**\n" \o Fence \o "systemverilog\n// Unnamed generate block\n" \o Fence \o "\n\n"
ExampleInitial == "**Example Fix:**\n" \o Fence \o "systemverilog\n// Unguarded initial block\n" \o Fence \o "\n\n"
ExampleNonBlocking ==
    "**Example Fix:**\n" \o Fence \o "systemverilog\n// Blocking assignment in clocked logic (can cause race conditions)\n" \o Fence \o "\n\n"
ExampleBlocking ==
    "**Example Fix:**\n" \o Fence \o "systemverilog\n// Non-blocking in combinational logic\n" \o Fence \o "\n\n"

\* lines 395-439
StyleExample(title) ==
    IF Contains(title, "C-style curly braces") THEN ExampleBraces
    ELSE IF Contains(title, "Tabs detected") THEN ExampleTabs
    ELSE IF Contains(title, "Lines longer than 120") THEN ExampleLongLines
    ELSE IF Contains(title, "Multiple ports per line") THEN ExamplePorts
    ELSE ""

\* lines 448-519
BestPracticeExample(title) ==
    IF Contains(title, "missing default cases") THEN ExampleDefault
    ELSE IF Contains(title, "Missing comments before always") THEN ExampleComment
    ELSE IF Contains(title, "Unnamed generate blocks") THEN ExampleGenerate
    ELSE IF Contains(title, "Unguarded initial block") THEN ExampleInitial
    ELSE ""

\* lines 528-561
PerformanceExample(title) ==
    IF Contains(title, "blocking assignments in clocked") THEN ExampleNonBlocking
    ELSE IF Contains(title, "non-blocking assignments in combinational")
         THEN ExampleBlocking
    ELSE ""

ActionRequired ==
    "**Action Required:** Fix these issues immediately as they prevent compilation or simulation.\n\n"

\* lines 378-385
CriticalSection(d) ==
    IF d # <<>>
    THEN "## CRITICAL ISSUES (Fix First - Blocks Compilation/Simulation)\n\n"
         \o Concat([k \in 1..Len(d) |-> ItemText(k, d[k]) \o ActionRequired])
    ELSE ""

\* lines 387-439
StyleSection(d) ==
    IF d # <<>>
    THEN "## STYLE ISSUES (Coding Standard Violations)\n\n"
         \o Concat([k \in 1..Len(d) |-> ItemText(k, d[k]) \o StyleExample(d[k].title)])
    ELSE ""

\* lines 441-519
BestPracticeSection(d) ==
    IF d # <<>>
    THEN "## BEST PRACTICE ISSUES (Improve Code Quality)\n\n"
         \o Concat([k \in 1..Len(d) |->
                      ItemText(k, d[k]) \o BestPracticeExample(d[k].title)])
    ELSE ""

\* lines 521-561
PerformanceSection(d) ==
    IF d # <<>>
    THEN "## PERFORMANCE ISSUES (Synthesis/Timing Concerns)\n\n"
         \o Concat([k \in 1..Len(d) |->
                      ItemText(k, d[k]) \o PerformanceExample(d[k].title)])
    ELSE ""

\* one checklist line per title
Checklist(d, verb) ==
    Concat([k \in 1..Len(d) |-> "- [ ] " \o verb \o ": " \o d[k].title \o "\n"])

\* Phase 3 tested on the best-practice dict alone.
ActionPlan_phase3_best_practice_only(st) ==
    "## PRIORITIZED ACTION PLAN\n\n"
    \o "### Phase 1: Critical Fixes (Do First)\n"
    \o (IF st.critical_issues = <<>>
        THEN "- [x] No critical issues found\n"
        ELSE Checklist(st.critical_issues, "Fix"))
    \o "\n### Phase 2: Style Consistency\n"
    \o (IF st.style_issues = <<>>
        THEN "- [x] No style issues found\n"
        ELSE Checklist(st.style_issues, "Fix"))
    \o "\n### Phase 3: Best Practices & Performance\n"
    \o (IF st.best_practice_issues = <<>>
        THEN "- [x] No best practice or performance issues found\n"
        ELSE Checklist(st.best_practice_issues, "Improve")
             \o Checklist(st.performance_issues, "Optimize"))

\* lines 563-587
ActionPlan(st) ==
    "## PRIORITIZED ACTION PLAN\n\n"
    \o "### Phase 1: Critical Fixes (Do First)\n"
    \o (IF st.critical_issues = <<>>
        THEN "- [x] No critical issues found\n"
        ELSE Checklist(st.critical_issues, "Fix"))
    \o "\n### Phase 2: Style Consistency\n"
    \o (IF st.style_issues = <<>>
        THEN "- [x] No style issues found\n"
        ELSE Checklist(st.style_issues, "Fix"))
    \o "\n### Phase 3: Best Practices & Performance\n"
    \o (IF Keys(st.best_practice_issues) \o Keys(st.performance_issues) = <<>>
        THEN "- [x] No best practice or performance issues found\n"
        ELSE Checklist(st.best_practice_issues, "Improve")
             \o Checklist(st.performance_issues, "Optimize"))

\* lines 589-682
Guidance(files) ==
    "\n## IMPLEMENTATION GUIDANCE\n\n"
    \o "### File Header Template\n"
    \o "### File Footer Template\n"
    \o "### Coding Standards Summary\n"
    \o "### Next Steps\n"
    \o "---\n**Note:** This analysis was performed on "
    \o ToString(Len(files))
    \o " SystemVerilog files. Focus on critical issues first to ensure the design compiles and simulates correctly.\n"

\* The sections written in another order: style before critical.
generate_llm_prompt_style_first(st, files) ==
    PromptHead(st, files)
    \o StyleSection(st.style_issues)
    \o CriticalSection(st.critical_issues)
    \o BestPracticeSection(st.best_practice_issues)
    \o PerformanceSection(st.performance_issues)
    \o ActionPlan(st)
    \o Guidance(files)

\* generate_llm_prompt(sv_files): the text returned, read from the store st
generate_llm_prompt(st, files) ==
    PromptHead(st, files)
    \o CriticalSection(st.critical_issues)
    \o StyleSection(st.style_issues)
    \o BestPracticeSection(st.best_practice_issues)
    \o PerformanceSection(st.performance_issues)
    \o ActionPlan(st)
    \o Guidance(files)

(***************************************************************************)
(* SECTION 7: the detectors.  Files are read from fs; open() of a file     *)
(* whose entry is not ok raises IOError.                                   *)
(***************************************************************************)
\* open(f, 'rb').read()
ReadBytes(f) == fs[f].data
\* open(f, 'r', encoding='utf-8', errors='ignore').read()
ReadText(f) == UniversalNewlines(fs[f].data)
\* file.readlines(), and the lines of "for line in file"
ReadLines(f) == SplitKeep(ReadText(f))

RECURSIVE Flatten(_)
Flatten(ss) == IF ss = <<>> THEN <<>> ELSE ss[1] \o Flatten(Tail(ss))

\* The loop written with the try around the for: the first unreadable file
\* ends the detector's loop.
ForFilesAbort(files, PerFile(_)) ==
    LET bad == {k \in 1..Len(files) : ~fs[files[k]].ok}
        stop == IF bad = {} THEN Len(files) + 1
                ELSE CHOOSE k \in bad : \A j \in bad : k <= j
    IN  Flatten([k \in 1..(stop - 1) |-> PerFile(files[k])])

\* "for f in sv_files: try: with open(f) ...: <PerFile> except IOError: warning"
\* (lines 916-923 and the same loop in every detector): the entries collected,
\* file after file; an unreadable file is skipped
ForFiles(files, PerFile(_)) ==
    Flatten([k \in 1..Len(files) |->
                IF fs[files[k]].ok THEN PerFile(files[k]) ELSE <<>>])

\* f"{f}:{i}: {line.strip()}" for every line number i (from 1) with Hit(i)
LineIssues(f, lines, Hit(_)) ==
    LET idx == SortedSeq({i \in 1..Len(lines) : Hit(i)})
    IN  [k \in 1..Len(idx) |->
            f \o ":" \o ToString(idx[k]) \o ": " \o Strip(lines[idx[k]])]

\* line.strip().startswith('//')
IsCommentLine(line) == StartsWith(Strip(line), "//")

\* the text a "." can run over from the start of the line: up to the first "\n"
FirstLine(line) == Split(line, "\n")[1]

\* ---- check_c_style_braces (lines 902-925)
BraceKeywords == {"if", "else", "for", "while", "case", "always", "initial"}
\* r"^(?!\s*//).*\b(if|else|for|while|case|always|initial)\b.*\{"
c_style_pattern(line) ==
    /\ ~OccursAt(line, SkipFwd(line, 1, SpaceChars), "//")
    /\ LET seg == FirstLine(line)
       IN  \E kw \in BraceKeywords : \E i \in WordOccurs(seg, kw) :
              \E j \in (i + Len(kw))..Len(seg) : At(seg, j) = "{"
c_style_braces_issues(files) ==
    ForFiles(files, LAMBDA f :
        LET lines == ReadLines(f)
        IN  LineIssues(f, lines, LAMBDA i : c_style_pattern(lines[i])))
check_c_style_braces(st, files) ==
    LET issues == c_style_braces_issues(files)
    IN  IF issues # <<>>
        THEN add_style_issue(st, "C-style curly braces detected", Join(issues, "\n"),
                "Convert C-style braces {} to SystemVerilog begin/end blocks")
        ELSE st

\* ---- check_tabs (lines 927-948)
tabs_issues(files) ==
    ForFiles(files, LAMBDA f :
        LET lines == ReadLines(f)
        IN  LineIssues(f, lines, LAMBDA i : Contains(lines[i], "\t")))
check_tabs(st, files) ==
    LET issues == tabs_issues(files)
    IN  IF issues # <<>>
        THEN add_style_issue(st, "Tabs detected", Join(issues, "\n"),
                "Replace all tabs with 4 spaces for consistent indentation")
        ELSE st

\* ---- check_line_length (lines 950-972)
max_len == 120
line_length_issues(files) ==
    ForFiles(files, LAMBDA f :
        LET lines == ReadLines(f)
        IN  LineIssues(f, lines, LAMBDA i : Len(RStripNL(lines[i])) > max_len))
check_line_length(st, files) ==
    LET issues == line_length_issues(files)
    IN  IF issues # <<>>
        THEN add_style_issue(st,
                "Lines longer than " \o ToString(max_len) \o " characters",
                Join(issues, "\n"),
                "Break long lines for better readability and code review")
        ELSE st

\* some line of the file contains marker
AnyLineContains(f, marker) ==
    LET lines == ReadLines(f)
    IN  \E i \in 1..Len(lines) : Contains(lines[i], marker)

\* ---- check_timescale (lines 974-994)
\* The check written inside the loop over the lines: the file is appended for
\* every line without the marker.
timescale_issues_per_line(files) ==
    ForFiles(files, LAMBDA f :
        LET lines == ReadLines(f)
            n == Cardinality({i \in 1..Len(lines) : ~Contains(lines[i], BT \o "timescale")})
        IN  [k \in 1..n |-> f])
timescale_issues(files) ==
    ForFiles(files, LAMBDA f :
        IF ~AnyLineContains(f, BT \o "timescale") THEN <<f>> ELSE <<>>)
check_timescale(st, files) ==
    LET issues == timescale_issues(files)
    IN  IF issues # <<>>
        THEN add_critical_issue(st, "Missing timescale directive", Join(issues, "\n"),
                "Add " \o BT \o "timescale 1ns/1ps as the first line of each file - required for simulation")
        ELSE st

\* ---- check_default_nettype (lines 996-1016)
\* The loop with the try around the for.
default_nettype_issues_abort(files) ==
    ForFilesAbort(files, LAMBDA f :
        IF ~AnyLineContains(f, BT \o "default_nettype none") THEN <<f>> ELSE <<>>)
default_nettype_issues(files) ==
    ForFiles(files, LAMBDA f :
        IF ~AnyLineContains(f, BT \o "default_nettype none") THEN <<f>> ELSE <<>>)
check_default_nettype(st, files) ==
    LET issues == default_nettype_issues(files)
    IN  IF issues # <<>>
        THEN add_critical_issue(st, "Missing default_nettype directive",
                Join(issues, "\n"),
                "Add " \o BT \o "default_nettype none after timescale - prevents implicit wire declarations")
        ELSE st

\* ---- check_trailing_whitespace (lines 1018-1039)
trailing_whitespace_issues(files) ==
    ForFiles(files, LAMBDA f :
        LET lines == ReadLines(f)
        IN  LineIssues(f, lines, LAMBDA i : RStrip(lines[i]) # RStripNL(lines[i])))
check_trailing_whitespace(st, files) ==
    LET issues == trailing_whitespace_issues(files)
    IN  IF issues # <<>>
        THEN add_style_issue(st, "Trailing whitespace detected", Join(issues, "\n"),
                "Remove all trailing spaces and tabs from line endings")
        ELSE st

\* ---- check_windows_line_endings (lines 1041-1061)
windows_line_endings_issues(files) ==
    ForFiles(files, LAMBDA f :
        IF Contains(ReadBytes(f), "\r\n") THEN <<f>> ELSE <<>>)
check_windows_line_endings(st, files) ==
    LET issues == windows_line_endings_issues(files)
    IN  IF issues # <<>>
        THEN add_style_issue(st, "Windows line endings (CRLF) detected",
                Join(issues, "\n"),
                "Convert CRLF line endings to Unix LF format")
        ELSE st

\* ---- check_blocking_in_clocked (lines 1063-1092)
\* the pattern "always" \s+ "@" \s* "(" \s* tail, anywhere in the line
AlwaysAt(line, tail) ==
    \E i \in Occurs(line, "always") :
        LET j == SkipFwd(line, i + 6, SpaceChars)
            k == SkipFwd(line, j + 1, SpaceChars)
            m == SkipFwd(line, k + 1, SpaceChars)
        IN  /\ j > i + 6
            /\ At(line, j) = "@"
            /\ At(line, k) = "("
            /\ OccursAt(line, m, tail)
\* r'always_ff|always\s+@\s*\(\s*posedge'
clocked_block_re(line) == Contains(line, "always_ff") \/ AlwaysAt(line, "posedge")
\* r'\b[a-zA-Z0-9_]+\s*=(?!=)'
blocking_assign_re(line) ==
    \E e \in Occurs(line, "=") :
        /\ At(line, e + 1) # "="
        /\ IsWordAt(line, SkipBack(line, e - 1, SpaceChars))

\* in_clocked_block after the statements of lines 1083-1088 for line i
\* (i = 0: the value the scan of the file starts with)
RECURSIVE ClockedAfter(_, _, _)
ClockedAfter(lines, i, start) ==
    IF i = 0 THEN start
    ELSE IF clocked_block_re(lines[i]) THEN TRUE
    ELSE IF Contains(lines[i], "end") THEN FALSE
    ELSE ClockedAfter(lines, i - 1, start)
\* in_clocked_block when line i is tested at line 1085
ClockedAtCheck(lines, i, start) ==
    IF Contains(lines[i], "end") THEN FALSE ELSE ClockedAfter(lines, i - 1, start)
clocked_file_issues(f, start) ==
    LET lines == ReadLines(f)
    IN  LineIssues(f, lines, LAMBDA i :
            /\ ClockedAtCheck(lines, i, start)
            /\ ~IsCommentLine(lines[i])
            /\ blocking_assign_re(lines[i]))

\* The flag set once before the loop over the files instead of once per file:
\* each file starts with the value the readable file before it ended with.
RECURSIVE ClockedCarry(_, _)
ClockedCarry(files, k) ==
    IF k = 0 THEN FALSE
    ELSE IF ~fs[files[k]].ok THEN ClockedCarry(files, k - 1)
    ELSE LET lines == ReadLines(files[k])
         IN  ClockedAfter(lines, Len(lines), ClockedCarry(files, k - 1))
blocking_in_clocked_issues_carry(files) ==
    Flatten([k \in 1..Len(files) |->
                IF fs[files[k]].ok
                THEN clocked_file_issues(files[k], ClockedCarry(files, k - 1))
                ELSE <<>>])

\* line 1080: in_clocked_block = False at the start of every file
blocking_in_clocked_issues(files) ==
    ForFiles(files, LAMBDA f : clocked_file_issues(f, FALSE))
check_blocking_in_clocked(st, files) ==
    LET issues == blocking_in_clocked_issues(files)
    IN  IF issues # <<>>
        THEN add_performance_issue(st, "Blocking assignments in clocked logic",
                Join(issues, "\n"),
                "Use non-blocking assignments (<=) in always_ff blocks to prevent race conditions")
        ELSE st

\* ---- check_nonblocking_in_comb (lines 1094-1123)
\* r'always_comb|always\s+@\s*\(\s*\*'
comb_block_re(line) == Contains(line, "always_comb") \/ AlwaysAt(line, "*")
\* r'<=\s*'
nonblocking_assign_re(line) == Contains(line, "<=")
RECURSIVE CombAfter(_, _, _)
CombAfter(lines, i, start) ==
    IF i = 0 THEN start
    ELSE IF comb_block_re(lines[i]) THEN TRUE
    ELSE IF Contains(lines[i], "end") THEN FALSE
    ELSE CombAfter(lines, i - 1, start)
CombAtCheck(lines, i, start) ==
    IF Contains(lines[i], "end") THEN FALSE ELSE CombAfter(lines, i - 1, start)
comb_file_issues(f, start) ==
    LET lines == ReadLines(f)
    IN  LineIssues(f, lines, LAMBDA i :
            /\ CombAtCheck(lines, i, start)
            /\ ~IsCommentLine(lines[i])
            /\ nonblocking_assign_re(lines[i]))
\* line 1111: in_comb_block = False at the start of every file
nonblocking_in_comb_issues(files) ==
    ForFiles(files, LAMBDA f : comb_file_issues(f, FALSE))
check_nonblocking_in_comb(st, files) ==
    LET issues == nonblocking_in_comb_issues(files)
    IN  IF issues # <<>>
        THEN add_performance_issue(st,
                "Non-blocking assignments in combinational logic",
                Join(issues, "\n"),
                "Use blocking assignments (=) in always_comb blocks for proper simulation behavior")
        ELSE st

\* ---- check_case_types (lines 1125-1147)
case_types_issues(files) ==
    ForFiles(files, LAMBDA f :
        LET lines == ReadLines(f)
        IN  LineIssues(f, lines, LAMBDA i :
                /\ (HasWord(lines[i], "casez") \/ HasWord(lines[i], "casex"))
                /\ ~IsCommentLine(lines[i])))
check_case_types(st, files) ==
    LET issues == case_types_issues(files)
    IN  IF issues # <<>>
        THEN add_style_issue(st, "casez/casex statements detected", Join(issues, "\n"),
                "Use regular case statements with explicit don't care conditions for better synthesis")
        ELSE st

\* ---- check_missing_default_in_case (lines 1149-1178)
\* re.findall(r'\bcase\b.*?endcase', content, re.DOTALL), searching from p
RECURSIVE CaseBlocks(_, _)
CaseBlocks(content, p) ==
    LET starts == {i \in WordOccurs(content, "case") : i >= p}
    IN  IF starts = {} THEN <<>>
        ELSE LET i == CHOOSE x \in starts : \A y \in starts : x <= y
                 ends == {j \in Occurs(content, "endcase") : j >= i + 4}
             IN  IF ends = {} THEN <<>>
                 ELSE LET j == CHOOSE x \in ends : \A y \in ends : x <= y
                      IN  <<SubSeq(content, i, j + 6)>> \o CaseBlocks(content, j + 7)
case_count(content) == Cardinality(WordOccurs(content, "case"))
\* Every default of a block counted: default_count += block.count('default')
default_count_occurrences(content) ==
    LET blocks == CaseBlocks(content, 1)
        RECURSIVE Sum(_)
        Sum(k) == IF k = 0 THEN 0
                  ELSE Sum(k - 1) + Cardinality(Occurs(blocks[k], "default"))
    IN  Sum(Len(blocks))
\* lines 1168-1171: the blocks with 'default' in them
default_count(content) ==
    LET blocks == CaseBlocks(content, 1)
    IN  Cardinality({k \in 1..Len(blocks) : Contains(blocks[k], "default")})
missing_default_issues(files) ==
    ForFiles(files, LAMBDA f :
        LET content == ReadText(f)
        IN  IF case_count(content) > default_count(content)
            THEN <<f \o " (has " \o ToString(case_count(content))
                     \o " case statements but only "
                     \o ToString(default_count(content)) \o " default clauses)">>
            ELSE <<>>)
check_missing_default_in_case(st, files) ==
    LET issues == missing_default_issues(files)
    IN  IF issues # <<>>
        THEN add_best_practice_issue(st, "Missing default cases in case statements",
                Join(issues, "\n"),
                "Add default clause to all case statements to handle unexpected values")
        ELSE st

\* ---- check_unnamed_generate_blocks (lines 1180-1217)
\* The region without its exit: endgenerate is not looked at.
RECURSIVE GenerateAt_no_exit(_, _, _)
GenerateAt_no_exit(lines, i, start) ==
    IF i = 0 THEN start
    ELSE IF HasWord(lines[i], "generate") THEN TRUE
    ELSE GenerateAt_no_exit(lines, i - 1, start)
\* in_generate when line i is examined at line 1203 (after lines 1199-1202)
RECURSIVE GenerateAt(_, _, _)
GenerateAt(lines, i, start) ==
    IF i = 0 THEN start
    ELSE IF HasWord(lines[i], "endgenerate") THEN FALSE
    ELSE IF HasWord(lines[i], "generate") THEN TRUE
    ELSE GenerateAt(lines, i - 1, start)
\* re.match(r'\s*(for|if)\b.*\bbegin\s*$', line)
for_if_begin_re(line) ==
    LET j == SkipFwd(line, 1, SpaceChars)
    IN  \E kw \in {"for", "if"} :
          /\ OccursAt(line, j, kw)
          /\ WordBoundary(line, j + Len(kw))
          /\ \E b \in Occurs(line, "begin") :
                /\ b >= j + Len(kw)
                /\ WordBoundary(line, b)
                /\ \A x \in (j + Len(kw))..(b - 1) : At(line, x) # "\n"
                /\ SkipFwd(line, b + 5, SpaceChars) = Len(line) + 1
\* re.search(r'begin\s*:\s*\w+', line)
begin_label_re(line) ==
    \E b \in Occurs(line, "begin") :
        LET k == SkipFwd(line, b + 5, SpaceChars)
        IN  /\ At(line, k) = ":"
            /\ IsWordAt(line, SkipFwd(line, k + 1, SpaceChars))
generate_file_issues(f, start) ==
    LET lines == ReadLines(f)
    IN  LineIssues(f, lines, LAMBDA i :
            /\ GenerateAt(lines, i, start)
            /\ for_if_begin_re(lines[i])
            /\ ~begin_label_re(lines[i]))
\* line 1196: in_generate = False at the start of every file
unnamed_generate_issues(files) ==
    ForFiles(files, LAMBDA f : generate_file_issues(f, FALSE))
check_unnamed_generate_blocks(st, files) ==
    LET issues == unnamed_generate_issues(files)
    IN  IF issues # <<>>
        THEN add_best_practice_issue(st, "Unnamed generate blocks (context-aware)",
                Join(issues, "\n"),
                "Add labels to all generate blocks (begin : label_name)")
        ELSE st

\* ---- the module header region of lines 1232-1259 and 1283-1304
\* r'^\s*module\b.*\('
module_header_re(line) ==
    LET j == SkipFwd(line, 1, SpaceChars)
    IN  /\ OccursAt(line, j, "module")
        /\ WordBoundary(line, j + 6)
        /\ \E x \in (j + 6)..Len(line) :
              /\ At(line, x) = "("
              /\ \A y \in (j + 6)..(x - 1) : At(line, y) # "\n"
\* r'\)\s*;'
end_header_re(line) ==
    \E i \in Occurs(line, ")") : At(line, SkipFwd(line, i + 1, SpaceChars)) = ";"
\* in_module_header after the statements for line i
RECURSIVE HeaderAfter(_, _, _)
HeaderAfter(lines, i, start) ==
    IF i = 0 THEN start
    ELSE LET before == HeaderAfter(lines, i - 1, start)
             inside == before \/ module_header_re(lines[i])
         IN  inside /\ ~end_header_re(lines[i])
\* The header region under the policy of the clocked-block check: the line of
\* the header's start is examined before the region is entered, the line of its
\* end after the region is left.
HeaderAtCheck_tracker(lines, i, start) ==
    HeaderAfter(lines, i - 1, start) /\ ~end_header_re(lines[i])
\* in_module_header when line i is examined (lines 1246 and 1297)
HeaderAtCheck(lines, i, start) ==
    HeaderAfter(lines, i - 1, start) \/ module_header_re(lines[i])

PortKeywords == {"input", "output", "inout"}
\* the matches of r'\b(input|output|inout)\b': <<start, end>> pairs
PortMatches(line) ==
    UNION {{<<i, i + Len(kw)>> : i \in WordOccurs(line, kw)} : kw \in PortKeywords}

\* ---- check_multiple_ports_per_line (lines 1219-1267)
\* lines 1248-1256: the first port keyword, then a comma in what follows it in
\* the line cut at its first "//"
port_then_comma(line) ==
    LET ms == PortMatches(line)
    IN  /\ ms # {}
        /\ LET m == CHOOSE x \in ms : \A y \in ms : x[1] <= y[1]
               cmt == Occurs(line, "//")
               code == IF cmt = {} THEN line
                       ELSE Upto(line, (CHOOSE x \in cmt : \A y \in cmt : x <= y) - 1)
               after_port == From(code, m[2])
           IN  Contains(after_port, ",")
multiple_ports_file_issues(f, start) ==
    LET lines == ReadLines(f)
    IN  LineIssues(f, lines, LAMBDA i :
            HeaderAtCheck(lines, i, start) /\ port_then_comma(lines[i]))
\* line 1241: in_module_header = False at the start of every file
multiple_ports_issues(files) ==
    ForFiles(files, LAMBDA f : multiple_ports_file_issues(f, FALSE))
check_multiple_ports_per_line(st, files) ==
    LET issues == multiple_ports_issues(files)
    IN  IF issues # <<>>
        THEN add_style_issue(st, "Multiple ports per line in module header",
                Join(issues, "\n"),
                "Declare only one port per line in module headers for readability and maintainability.")
        ELSE st

\* ---- check_single_port_per_line (lines 1270-1312)
single_port_file_issues(f, start) ==
    LET lines == ReadLines(f)
    IN  LineIssues(f, lines, LAMBDA i :
            HeaderAtCheck(lines, i, start) /\ Cardinality(PortMatches(lines[i])) > 1)
\* line 1292: in_module_header = False at the start of every file
single_port_issues(files) ==
    ForFiles(files, LAMBDA f : single_port_file_issues(f, FALSE))
\* The two port checks as one: the lines with several port keywords go under
\* the title of check_multiple_ports_per_line.
check_single_port_per_line_merged(st, files) ==
    LET issues == single_port_issues(files)
    IN  IF issues # <<>>
        THEN add_style_issue(st, "Multiple ports per line in module header",
                Join(issues, "\n"),
                "Declare only one port per line in module headers for readability and maintainability.")
        ELSE st
check_single_port_per_line(st, files) ==
    LET issues == single_port_issues(files)
    IN  IF issues # <<>>
        THEN add_style_issue(st, "Multiple port declarations per line in module header",
                Join(issues, "\n"),
                "Declare only one port per line in module headers for readability and maintainability.")
        ELSE st

\* ---- check_unguarded_initial_blocks (lines 1314-1348)
\* The guard with its conditionals paired by nesting: a conditional opened inside
\* the guard is closed by the next endif, the guard by the endif after that.
RECURSIVE GuardDepth(_, _, _)
GuardDepth(lines, i, start) ==
    IF i = 0 THEN (IF start THEN 1 ELSE 0)
    ELSE LET d == GuardDepth(lines, i - 1, start)
             opened == IF Contains(lines[i], BT \o "ifndef SYNTHESIS") THEN d + 1
                       ELSE IF d > 0 /\ Contains(lines[i], BT \o "ifdef") THEN d + 1
                       ELSE d
         IN  IF Contains(lines[i], BT \o "endif") /\ opened > 0 THEN opened - 1 ELSE opened
GuardAt_nested(lines, i, start) == GuardDepth(lines, i, start) > 0
\* is_in_synth_guard when line i is tested at line 1341
RECURSIVE GuardAt(_, _, _)
GuardAt(lines, i, start) ==
    IF i = 0 THEN start
    ELSE LET entered == GuardAt(lines, i - 1, start)
                           \/ Contains(lines[i], BT \o "ifndef SYNTHESIS")
         IN  IF Contains(lines[i], BT \o "endif") /\ entered THEN FALSE ELSE entered
unguarded_initial_violations(filepath, lines, start) ==
    LineIssues(filepath, lines, LAMBDA i :
        ~GuardAt(lines, i, start) /\ HasWord(lines[i], "initial"))
\* line 1331: is_in_synth_guard = False at every call
check_unguarded_initial_blocks(st, filepath, lines) ==
    LET violations == unguarded_initial_violations(filepath, lines, FALSE)
    IN  IF violations # <<>>
        THEN add_best_practice_issue(st, "Unguarded initial block(s) detected",
                Join(violations, "\n"),
                "Wrap all initial blocks in " \o BT \o "ifndef SYNTHESIS ... " \o BT
                \o "endif to prevent simulation-only code from being synthesized.")
        ELSE st

\* ---- run_per_file_checks (lines 1350-1452)
\* r'^\s*module\b' (no re.MULTILINE: "^" is the start of the text only), as
\* the number of matches findall returns
module_re_count(content) ==
    LET j == SkipFwd(content, 1, SpaceChars)
    IN  IF OccursAt(content, j, "module") /\ WordBoundary(content, j + 6)
        THEN 1 ELSE 0
\* r'//|/\*'
comment_re(text) == Contains(text, "//") \/ Contains(text, "/*")
\* r'^\s*module\s+[a-zA-Z0-9_]+\s*;' (no re.MULTILINE)
\* r'^\s*module\s+\w+\s*;\s*$': the declaration alone on the text
non_ansi_re_whole_text(content) ==
    LET j == SkipFwd(content, 1, SpaceChars)
        k == SkipFwd(content, j + 6, SpaceChars)
        m == SkipFwd(content, k, WordChars)
        n == SkipFwd(content, m, SpaceChars)
    IN  /\ OccursAt(content, j, "module")
        /\ k > j + 6
        /\ m > k
        /\ At(content, n) = ";"
        /\ SkipFwd(content, n + 1, SpaceChars) > Len(content)
non_ansi_re(content) ==
    LET j == SkipFwd(content, 1, SpaceChars)
        k == SkipFwd(content, j + 6, SpaceChars)
        m == SkipFwd(content, k, WordChars)
        n == SkipFwd(content, m, SpaceChars)
    IN  /\ OccursAt(content, j, "module")
        /\ k > j + 6
        /\ m > k
        /\ At(content, n) = ";"
\* Every opener of a clocked or combinational block:
\* r'always_(ff|comb)|always\s+@\s*\(\s*(posedge|\*)'
always_re_every_opener(line) == clocked_block_re(line) \/ comb_block_re(line)
\* r'always_(ff|comb)'
always_re(line) == Contains(line, "always_ff") \/ Contains(line, "always_comb")

header_keys ==
    <<"// Company:", "// Project Name:", "// File:", "// MODULE_NAME:",
      "// AUTHOR:", "// VERSION:", "// DATE:", "// DESCRIPTION:",
      "// PRIMARY_PURPOSE:", "// ROLE_IN_SYSTEM:", "// PROBLEM_SOLVED:",
      "// MODULE_TYPE:", "// TARGET_TECHNOLOGY_PREF:", "// RELATED_SPECIFICATION:",
      "// VERIFICATION_STATUS:", "// QUALITY_STATUS:",
      BT \o "timescale", BT \o "default_nettype none">>
footer_keys ==
    <<"// Dependencies:", "// Instantiated In:", "// Performance:",
      "// Verification Coverage:", "// Synthesis:", "// Testing:",
      "// Revision History:", "// Version | Date">>
\* [k for k in keys if k not in content]
MissingKeys(keys, content) == SelectSeq(keys, LAMBDA k : ~Contains(content, k))

\* lines 1394-1400
header_check(st, f, content) ==
    LET missing_header_keys == MissingKeys(header_keys, content)
    IN  IF missing_header_keys # <<>>
        THEN add_style_issue(st, "Missing or incomplete file header",
                f \o " (missing: " \o Join(missing_header_keys, ", ") \o ")",
                "Add standard file header with all required fields as per template.")
        ELSE st
\* lines 1413-1419
footer_check(st, f, content) ==
    LET missing_footer_keys == MissingKeys(footer_keys, content)
    IN  IF missing_footer_keys # <<>>
        THEN add_style_issue(st, "Missing or incomplete file footer",
                f \o " (missing: " \o Join(missing_footer_keys, ", ") \o ")",
                "Add standard file footer with all required fields as per template.")
        ELSE st
\* lines 1423-1426
begin_end_check(st, f, content) ==
    LET begin_count == Cardinality(WordOccurs(content, "begin"))
        end_count == Cardinality(WordOccurs(content, "end"))
    IN  IF begin_count # end_count
        THEN add_critical_issue(st, "Unbalanced begin/end blocks",
                f \o " (begin: " \o ToString(begin_count) \o ", end: "
                  \o ToString(end_count) \o ")",
                "Fix mismatched begin/end pairs - causes compilation errors")
        ELSE st
\* lines 1429-1431
multiple_modules_check(st, f, content) ==
    LET module_count == module_re_count(content)
    IN  IF module_count > 1
        THEN add_best_practice_issue(st, "Multiple modules per file",
                f \o " (" \o ToString(module_count) \o " modules)",
                "Split files to contain only one module each for better organization")
        ELSE st
\* lines 1434-1435
no_comments_check(st, f, content) ==
    IF ~comment_re(content)
    THEN add_best_practice_issue(st, "Files without comments", f,
            "Add meaningful comments to explain module functionality")
    ELSE st
\* lines 1438-1439
non_ansi_check(st, f, content) ==
    IF non_ansi_re(content)
    THEN add_best_practice_issue(st, "Non-ANSI module declarations", f,
            "Convert to ANSI-style port declarations (ports in module header)")
    ELSE st
\* lines 1442-1446, from line number i (from 1) on: one add call per opener
RECURSIVE always_comment_check(_, _, _, _)
always_comment_check(st, f, lines, i) ==
    IF i > Len(lines) THEN st
    ELSE always_comment_check(
            IF always_re(lines[i]) /\ i - 1 > 0 /\ ~comment_re(lines[i - 1])
            THEN add_best_practice_issue(st, "Missing comments before always blocks",
                    f \o ":" \o ToString(i),
                    "Add descriptive comments before always_ff/always_comb blocks")
            ELSE st,
            f, lines, i + 1)

\* the body of the loop, lines 1368-1449, for one readable file
per_file_checks(st, f) ==
    LET lines == ReadLines(f)
        content == Concat(lines)
        s1 == header_check(st, f, content)
        s2 == footer_check(s1, f, content)
        s3 == begin_end_check(s2, f, content)
        s4 == multiple_modules_check(s3, f, content)
        s5 == no_comments_check(s4, f, content)
        s6 == non_ansi_check(s5, f, content)
        s7 == always_comment_check(s6, f, lines, 1)
    IN  check_unguarded_initial_blocks(s7, f, lines)

\* the loop of lines 1366-1452 over files[k..]
RECURSIVE per_file_loop(_, _, _)
per_file_loop(st, files, k) ==
    IF k > Len(files) THEN st
    ELSE per_file_loop(IF fs[files[k]].ok THEN per_file_checks(st, files[k]) ELSE st,
                       files, k + 1)
run_per_file_checks(st, files) == per_file_loop(st, files, 1)

(***************************************************************************)
(* SECTION 6: collect_sv_files, over the files and the directory of fs.    *)
(***************************************************************************)
\* the characters of the model's paths in code point order
CodeOrder == "./0123456789ABCDEFGHIJKLMNOPQRSTUVWXYZ_abcdefghijklmnopqrstuvwxyz"
CodePoint(c) == CHOOSE i \in 1..Len(CodeOrder) : At(CodeOrder, i) = c
\* a < b for str
RECURSIVE StrLess(_, _)
StrLess(a, b) ==
    IF b = "" THEN FALSE
    ELSE IF a = "" THEN TRUE
    ELSE IF At(a, 1) = At(b, 1) THEN StrLess(From(a, 2), From(b, 2))
    ELSE CodePoint(At(a, 1)) < CodePoint(At(b, 1))
\* sorted(list(files))
RECURSIVE sorted(_)
sorted(S) ==
    IF S = {} THEN <<>>
    ELSE LET m == CHOOSE x \in S : \A y \in S \ {x} : StrLess(x, y)
         IN  <<m>> \o sorted(S \ {m})

\* the working directory of the run
Cwd == "/w/"
\* os.path.abspath(p)
abspath(p) == IF StartsWith(p, "/") THEN p ELSE Cwd \o p
\* s.endswith(p)
EndsWith(s, p) == OccursAt(s, Len(s) - Len(p) + 1, p)
\* os.path.isfile(p), Path(p).is_file()
isfile(p) == abspath(p) \in DOMAIN fs
\* Path(p).is_dir(): rtl is the one directory
is_dir(p) == p \in {"rtl", "rtl/"}
\* target_path.rglob('*.sv') and glob('*.sv'): rtl holds files only
glob_sv(dir) ==
    {q \in DOMAIN fs :
        StartsWith(q, abspath(IF EndsWith(dir, "/") THEN dir ELSE dir \o "/"))
        /\ EndsWith(q, ".sv")}

\* lines 860-873: the files one filelist adds
filelist_files(filelist_path) ==
    IF ~isfile(filelist_path) THEN {}
    ELSE LET ls == SplitKeep(UniversalNewlines(fs[abspath(filelist_path)].data))
             good == {k \in 1..Len(ls) :
                        LET line == Strip(ls[k])
                        IN  /\ line # ""
                            /\ ~StartsWith(line, "#")
                            /\ isfile(line)
                            /\ EndsWith(line, ".sv")}
         IN  {abspath(Strip(ls[k])) : k \in good}
\* lines 876-893: the files one target adds
target_files(target, recursive) ==
    IF isfile(target)
    THEN (IF EndsWith(target, ".sv") THEN {abspath(target)} ELSE {})
    ELSE IF is_dir(target) THEN glob_sv(target)
    ELSE {}
collect_sv_files(targets, filelists, recursive) ==
    sorted(UNION {filelist_files(filelists[k]) : k \in 1..Len(filelists)}
           \cup UNION {target_files(targets[k], recursive) : k \in 1..Len(targets)})

(***************************************************************************)
(* SECTION 8: autofix and main.                                            *)
(***************************************************************************)
\* The line ending repaired and the trailing whitespace kept:
\* line.rstrip('\n') + '\n'
autofix_data_rstrip_newline(data) ==
    LET lines == SplitKeep(UniversalNewlines(data))
    IN  Concat([k \in 1..Len(lines) |-> RStripNL(lines[k]) \o "\n"])
\* lines 1471-1476 for one file: the bytes written back
autofix_data(data) ==
    LET lines == SplitKeep(UniversalNewlines(data))
    IN  Concat([k \in 1..Len(lines) |-> RStrip(lines[k]) \o "\n"])
\* autofix_trailing_whitespace_and_line_endings(sv_files): the file system after
autofix_fs(files) ==
    [q \in DOMAIN fs |->
        IF (\E k \in 1..Len(files) : files[k] = q) /\ fs[q].ok
        THEN [fs[q] EXCEPT !.data = autofix_data(@)]
        ELSE fs[q]]

\* argparse: the positional targets, ['rtl/'] when none is given (line 759)
args_targets == IF argv.given = <<>> THEN <<"rtl/">> ELSE argv.given
\* lines 1494-1502
main_targets ==
    LET t1 == IF args_targets = <<>> /\ argv.filelists = <<>>
              THEN <<"rtl/">> ELSE args_targets
    IN  IF argv.filelists # <<>> /\ args_targets = <<>> THEN <<>> ELSE t1

\* The calls with the two presence checks moved to the front.
Detectors_presence_first ==
    <<"check_timescale", "check_default_nettype",
      "check_c_style_braces", "check_tabs", "check_line_length",
      "check_trailing_whitespace",
      "check_windows_line_endings", "check_blocking_in_clocked",
      "check_nonblocking_in_comb", "check_case_types",
      "check_missing_default_in_case", "run_per_file_checks",
      "check_unnamed_generate_blocks", "check_multiple_ports_per_line",
      "check_single_port_per_line">>
\* the detector calls of lines 1531-1545, in order
Detectors ==
    <<"check_c_style_braces", "check_tabs", "check_line_length", "check_timescale",
      "check_default_nettype", "check_trailing_whitespace",
      "check_windows_line_endings", "check_blocking_in_clocked",
      "check_nonblocking_in_comb", "check_case_types",
      "check_missing_default_in_case", "run_per_file_checks",
      "check_unnamed_generate_blocks", "check_multiple_ports_per_line",
      "check_single_port_per_line">>
\* what follows the call at pc
NextPc(d) ==
    LET k == CHOOSE i \in 1..Len(Detectors) : Detectors[i] = d
    IN  IF k = Len(Detectors) THEN "summary" ELSE Detectors[k + 1]

\* lines 1488-1528: parse, collect, exit 0 when nothing is found, autofix
main_collect ==
    /\ pc = "main"
    /\ LET files == collect_sv_files(main_targets, argv.filelists, argv.recursive)
       IN  /\ sv_files' = files
           /\ IF files = <<>>
              THEN /\ pc' = "exit"
                   /\ exit_status' = 0
                   /\ fs' = fs
              ELSE /\ pc' = Detectors[1]
                   /\ exit_status' = exit_status
                   /\ fs' = IF argv.fix THEN autofix_fs(files) ELSE fs
    /\ UNCHANGED <<storeVars, argv, ran, llm_prompt, emitted, call, ncalls>>

\* one detector call of main: the store after it, and the next call
DetectorCall(d, st) ==
    /\ pc = d
    /\ SetStore(st)
    /\ ran' = Append(ran, d)
    /\ pc' = NextPc(d)
    /\ UNCHANGED <<fs, argv, sv_files, exit_status, llm_prompt, emitted, call, ncalls>>

main_check_c_style_braces ==
    DetectorCall("check_c_style_braces", check_c_style_braces(Store, sv_files))
main_check_tabs == DetectorCall("check_tabs", check_tabs(Store, sv_files))
main_check_line_length ==
    DetectorCall("check_line_length", check_line_length(Store, sv_files))
main_check_timescale ==
    DetectorCall("check_timescale", check_timescale(Store, sv_files))
main_check_default_nettype ==
    DetectorCall("check_default_nettype", check_default_nettype(Store, sv_files))
main_check_trailing_whitespace ==
    DetectorCall("check_trailing_whitespace",
                 check_trailing_whitespace(Store, sv_files))
main_check_windows_line_endings ==
    DetectorCall("check_windows_line_endings",
                 check_windows_line_endings(Store, sv_files))
main_check_blocking_in_clocked ==
    DetectorCall("check_blocking_in_clocked",
                 check_blocking_in_clocked(Store, sv_files))
main_check_nonblocking_in_comb ==
    DetectorCall("check_nonblocking_in_comb",
                 check_nonblocking_in_comb(Store, sv_files))
main_check_case_types ==
    DetectorCall("check_case_types", check_case_types(Store, sv_files))
main_check_missing_default_in_case ==
    DetectorCall("check_missing_default_in_case",
                 check_missing_default_in_case(Store, sv_files))
main_run_per_file_checks ==
    DetectorCall("run_per_file_checks", run_per_file_checks(Store, sv_files))
main_check_unnamed_generate_blocks ==
    DetectorCall("check_unnamed_generate_blocks",
                 check_unnamed_generate_blocks(Store, sv_files))
main_check_multiple_ports_per_line ==
    DetectorCall("check_multiple_ports_per_line",
                 check_multiple_ports_per_line(Store, sv_files))
main_check_single_port_per_line ==
    DetectorCall("check_single_port_per_line",
                 check_single_port_per_line(Store, sv_files))

\* The summary without the sys.exit(1) of line 1560: the script falls off the
\* end of main and exits 0.
main_summary_exit_zero ==
    /\ pc = "summary"
    /\ IF fail
       THEN /\ llm_prompt' = generate_llm_prompt(Store, sv_files)
            /\ emitted' = TRUE
       ELSE UNCHANGED <<llm_prompt, emitted>>
    /\ exit_status' = 0
    /\ pc' = "exit"
    /\ UNCHANGED <<storeVars, fs, argv, sv_files, ran, call, ncalls>>

\* lines 1547-1564: the final summary and the exit status
main_summary ==
    /\ pc = "summary"
    /\ IF fail
       THEN /\ llm_prompt' = generate_llm_prompt(Store, sv_files)
            /\ emitted' = TRUE
            /\ exit_status' = 1
       ELSE /\ exit_status' = 0
            /\ UNCHANGED <<llm_prompt, emitted>>
    /\ pc' = "exit"
    /\ UNCHANGED <<storeVars, fs, argv, sv_files, ran, call, ncalls>>

(***************************************************************************)
(* The library specification: any sequence of calls of the four add        *)
(* functions and of generate_llm_prompt, from the empty store.             *)
(***************************************************************************)
TitleInputs == {"Missing timescale directive", "Tabs detected"}
\* <<content, solution>> of a call
RecordInputs ==
    {<<"", "first solution">>, <<"", "second solution">>,
     <<"/w/b.sv", "first solution">>, <<"/w/rtl/a.sv:2: x", "second solution">>}
FileListInputs == {<<"/w/b.sv">>, <<"/w/b.sv", "/w/rtl/a.sv">>}

\* the last call: the function, its arguments, and for generate_llm_prompt
\* whether the call before it was the same call
NoCall ==
    [op |-> "none", title |-> "", content |-> "", solution |-> "", files |-> <<>>,
     again |-> FALSE]
AddCall(op, title, content, solution) ==
    [op |-> op, title |-> title, content |-> content, solution |-> solution,
     files |-> <<>>, again |-> FALSE]

NoFiles == [q \in {} |-> [ok |-> FALSE, data |-> ""]]
NoArgs == [given |-> <<>>, filelists |-> <<>>, recursive |-> TRUE, fix |-> FALSE]

Init ==
    /\ fail = FALSE /\ total_issues = 0
    /\ critical_issues = <<>> /\ style_issues = <<>>
    /\ best_practice_issues = <<>> /\ performance_issues = <<>>
    /\ fs = NoFiles /\ argv = NoArgs /\ sv_files = <<>>
    /\ pc = "lib" /\ ran = <<>> /\ exit_status = -1
    /\ llm_prompt = "" /\ emitted = FALSE
    /\ call = NoCall /\ ncalls = 0

\* a call of an add function from outside: the store after it; the call
\* returns None
LibCall(st, c) ==
    /\ pc = "lib"
    /\ ncalls < MaxCalls
    /\ SetStore(st)
    /\ llm_prompt' = ""
    /\ call' = c
    /\ ncalls' = ncalls + 1
    /\ UNCHANGED runVars

CallAddCritical ==
    \E t \in TitleInputs, cs \in RecordInputs :
        LibCall(add_critical_issue(Store, t, cs[1], cs[2]),
                AddCall("add_critical_issue", t, cs[1], cs[2]))
CallAddStyle ==
    \E t \in TitleInputs, cs \in RecordInputs :
        LibCall(add_style_issue(Store, t, cs[1], cs[2]),
                AddCall("add_style_issue", t, cs[1], cs[2]))
CallAddBestPractice ==
    \E t \in TitleInputs, cs \in RecordInputs :
        LibCall(add_best_practice_issue(Store, t, cs[1], cs[2]),
                AddCall("add_best_practice_issue", t, cs[1], cs[2]))
CallAddPerformance ==
    \E t \in TitleInputs, cs \in RecordInputs :
        LibCall(add_performance_issue(Store, t, cs[1], cs[2]),
                AddCall("add_performance_issue", t, cs[1], cs[2]))

\* generate_llm_prompt taking the critical issues out of their dict as it
\* renders them (popitem instead of items)
CallGenerateConsuming ==
    \E files \in FileListInputs :
        /\ pc = "lib"
        /\ ncalls < MaxCalls
        /\ llm_prompt' = generate_llm_prompt(Store, files)
        /\ critical_issues' = <<>>
        /\ call' = [NoCall EXCEPT !.op = "generate_llm_prompt", !.files = files,
                                  !.again = (call.op = "generate_llm_prompt"
                                             /\ call.files = files)]
        /\ ncalls' = ncalls + 1
        /\ UNCHANGED <<fail, total_issues, style_issues, best_practice_issues,
                       performance_issues, runVars>>

\* a call of generate_llm_prompt(files) from outside: the text it returns.
\* The function reads the globals and assigns to none of them.
CallGenerate ==
    \E files \in FileListInputs :
        /\ pc = "lib"
        /\ ncalls < MaxCalls
        /\ llm_prompt' = generate_llm_prompt(Store, files)
        /\ call' = [NoCall EXCEPT !.op = "generate_llm_prompt", !.files = files,
                                  !.again = (call.op = "generate_llm_prompt"
                                             /\ call.files = files)]
        /\ ncalls' = ncalls + 1
        /\ UNCHANGED <<storeVars, runVars>>

Next ==
    \/ CallAddCritical
    \/ CallAddStyle
    \/ CallAddBestPractice
    \/ CallAddPerformance
    \/ CallGenerate

Spec == Init /\ [][Next]_vars

(***************************************************************************)
(* The run specification: main, from the command line to the exit status,  *)
(* over a file system that holds b.sv, rtl/a.sv and the filelist l.f.      *)
(***************************************************************************)
\* a file that meets every check
CleanFile ==
    "// Company: c // Project Name: p // File: f // MODULE_NAME: m // AUTHOR: a // VERSION: 1\n"
    \o "// DATE: d // DESCRIPTION: x // PRIMARY_PURPOSE: x // ROLE_IN_SYSTEM: x // PROBLEM_SOLVED: x\n"
    \o "// MODULE_TYPE: x // TARGET_TECHNOLOGY_PREF: x // RELATED_SPECIFICATION: x\n"
    \o "// VERIFICATION_STATUS: x // QUALITY_STATUS: x\n"
    \o BT \o "timescale 1ns/1ps\n"
    \o BT \o "default_nettype none\n"
    \o "// Dependencies: x // Instantiated In: x // Performance: x // Verification Coverage: x\n"
    \o "// Synthesis: x // Testing: x // Revision History: // Version | Date\n"

\* the lines generated files are made of, by theme: the files of one run are
\* made of the lines of one theme
LineThemes ==
    {{BT \o "timescale 1ns/1ps\n", "module m; endmodule"},
     {"always_ff @(posedge clk) begin\n", "q = d;\n"},
     {"always_comb begin\n", "q <= d;\n"},
     {"generate\n", "for (i=0;i<4;i++) begin\n"},
     {BT \o "ifndef SYNTHESIS\n", "initial begin\n"},
     {"module m (\n", "input a, output b,\n"}}

\* the sequences of 1..n elements of S
RECURSIVE SeqsUpTo(_, _)
SeqsUpTo(S, n) ==
    IF n = 0 THEN {}
    ELSE LET shorter == SeqsUpTo(S, n - 1)
         IN  {<<x>> : x \in S} \cup shorter
                \cup {Append(q, x) : q \in shorter, x \in S}

Unreadable == [ok |-> FALSE, data |-> ""]
\* the states of one .sv file: unreadable, the clean file, or 1..MaxLines
\* lines of the theme
FileStates(theme) ==
    {Unreadable, [ok |-> TRUE, data |-> CleanFile]}
        \cup {[ok |-> TRUE, data |-> Concat(ls)] : ls \in SeqsUpTo(theme, MaxLines)}

SvPaths == {"/w/b.sv", "/w/rtl/a.sv"}
FilelistPath == "/w/l.f"
FilelistFile == [ok |-> TRUE, data |-> "# sources\nb.sv\n"]

\* the command lines: no argument, a filelist, a file, a file that does not
\* exist, and --fix
ArgvInputs ==
    {[given |-> <<>>, filelists |-> <<>>, recursive |-> TRUE, fix |-> FALSE],
     [given |-> <<>>, filelists |-> <<"l.f">>, recursive |-> TRUE, fix |-> FALSE],
     [given |-> <<>>, filelists |-> <<"l.f">>, recursive |-> TRUE, fix |-> TRUE],
     [given |-> <<"b.sv">>, filelists |-> <<>>, recursive |-> TRUE, fix |-> TRUE],
     [given |-> <<"nofile.sv">>, filelists |-> <<>>, recursive |-> TRUE, fix |-> FALSE],
     [given |-> <<"nofile.sv">>, filelists |-> <<"l.f">>, recursive |-> TRUE, fix |-> FALSE]}

InitRun ==
    /\ fail = FALSE /\ total_issues = 0
    /\ critical_issues = <<>> /\ style_issues = <<>>
    /\ best_practice_issues = <<>> /\ performance_issues = <<>>
    /\ \E theme \in LineThemes :
          \E svfs \in [SvPaths -> FileStates(theme)] :
              fs = [q \in SvPaths \cup {FilelistPath} |->
                      IF q = FilelistPath THEN FilelistFile ELSE svfs[q]]
    /\ argv \in ArgvInputs
    /\ sv_files = <<>>
    /\ pc = "main" /\ ran = <<>> /\ exit_status = -1
    /\ llm_prompt = "" /\ emitted = FALSE
    /\ call = NoCall /\ ncalls = 0

NextRun ==
    \/ main_collect
    \/ main_check_c_style_braces
    \/ main_check_tabs
    \/ main_check_line_length
    \/ main_check_timescale
    \/ main_check_default_nettype
    \/ main_check_trailing_whitespace
    \/ main_check_windows_line_endings
    \/ main_check_blocking_in_clocked
    \/ main_check_nonblocking_in_comb
    \/ main_check_case_types
    \/ main_check_missing_default_in_case
    \/ main_run_per_file_checks
    \/ main_check_unnamed_generate_blocks
    \/ main_check_multiple_ports_per_line
    \/ main_check_single_port_per_line
    \/ main_summary

SpecRun == InitRun /\ [][NextRun]_vars

(***************************************************************************)
(* The specification of one file: one detector is called on the list that  *)
(* holds the file b.sv, or the autofix is run on it, once or twice, and one *)
(* of the two detectors of what the autofix repairs is called after it.     *)
(***************************************************************************)
\* the lines the files are made of, by theme
FileLineThemes ==
    {{"module a;\n", "endmodule\n", "// c\n", " module b (\n"},
     {"always_ff @(posedge clk) begin\n", "temp = x;\n", "temp <= x;\n",
      "a[0] = x;\n", "  // t = x;\n", "if (a == b)\n"},
     {"generate\n", "for (i=0;i<4;i++) begin\n", "  if (P) begin\n",
      "for (i=0;i<4;i++) begin : g\n", "endgenerate\n"},
     {"a \r\n", "b\t\n", "c\n", "d\r", "e  "},
     {"always_ff @(posedge clk) begin\n", "pending = 1;\n", "q = d;\n", "end\n",
      "endcase\n"},
     {"always_comb begin\n", "always @(*) q <= d;\n", "q <= d;\n", "// q <= d;\n",
      "send <= d;\n", "end\n"},
     {BT \o "ifndef SYNTHESIS\n", BT \o "ifdef X\n" \o BT \o "endif\n",
      BT \o "endif\n", "initial begin\n"},
     {BT \o "ifndef SYNTHESIS // initial\n", BT \o "endif // initial\n",
      "initial begin\n"},
     {"if (P) /* generate */ begin\n", "if (P) /* endgenerate */ begin\n",
      "for (i=0;i<4;i++) begin\n"},
     {"always_ff @(posedge clk) q = d;\n", "always @(posedge clk) q = d;\n",
      "q = d;\n", "end\n"},
     {"module m (\n", "input a, input b,\n", "input logic clk,\n",
      "input c, output d);\n", "module m (input a, output b);\n"},
     {"case (a) default: ; default: ; endcase\n", "case (b) 0: ; endcase\n",
      "case (c) default: ; endcase\n", "default: ;\n"}}
\* the contents of the file: nothing, or 1..MaxFileLines pieces of a theme (a
\* piece is one line; the nested ifdef..endif pair is a piece of two lines)
FileInputs ==
    {""} \cup UNION {{Concat(ls) : ls \in SeqsUpTo(theme, MaxFileLines)} :
                        theme \in FileLineThemes}
TheFile == "/w/b.sv"

InitFile ==
    /\ fail = FALSE /\ total_issues = 0
    /\ critical_issues = <<>> /\ style_issues = <<>>
    /\ best_practice_issues = <<>> /\ performance_issues = <<>>
    /\ \E data \in FileInputs : fs = [q \in {TheFile} |-> [ok |-> TRUE, data |-> data]]
    /\ argv = NoArgs
    /\ sv_files = <<TheFile>>
    /\ pc = "file" /\ ran = <<>> /\ exit_status = -1
    /\ llm_prompt = "" /\ emitted = FALSE
    /\ call = NoCall /\ ncalls = 0

\* a call of the detector d on the list of the file: the store after it
FileCheck(d, st) ==
    /\ SetStore(st)
    /\ ran' = Append(ran, d)
    /\ pc' = "checked"
    /\ UNCHANGED <<fs, argv, sv_files, exit_status, llm_prompt, emitted, call, ncalls>>

file_check_blocking_in_clocked ==
    /\ pc = "file"
    /\ FileCheck("check_blocking_in_clocked", check_blocking_in_clocked(Store, sv_files))
file_check_unnamed_generate_blocks ==
    /\ pc = "file"
    /\ FileCheck("check_unnamed_generate_blocks",
                 check_unnamed_generate_blocks(Store, sv_files))
file_run_per_file_checks ==
    /\ pc = "file"
    /\ FileCheck("run_per_file_checks", run_per_file_checks(Store, sv_files))
file_check_trailing_whitespace ==
    /\ pc \in {"file", "fixed", "refixed"}
    /\ FileCheck("check_trailing_whitespace", check_trailing_whitespace(Store, sv_files))
file_check_windows_line_endings ==
    /\ pc \in {"file", "fixed", "refixed"}
    /\ FileCheck("check_windows_line_endings",
                 check_windows_line_endings(Store, sv_files))
file_check_nonblocking_in_comb ==
    /\ pc = "file"
    /\ FileCheck("check_nonblocking_in_comb", check_nonblocking_in_comb(Store, sv_files))
file_check_missing_default_in_case ==
    /\ pc = "file"
    /\ FileCheck("check_missing_default_in_case",
                 check_missing_default_in_case(Store, sv_files))
file_check_multiple_ports_per_line ==
    /\ pc = "file"
    /\ FileCheck("check_multiple_ports_per_line",
                 check_multiple_ports_per_line(Store, sv_files))
\* called alone, or after check_multiple_ports_per_line as main calls it
file_check_single_port_per_line ==
    /\ \/ pc = "file"
       \/ pc = "checked" /\ ran = <<"check_multiple_ports_per_line">>
    /\ FileCheck("check_single_port_per_line",
                 check_single_port_per_line(Store, sv_files))
\* autofix_trailing_whitespace_and_line_endings(sv_files), a first and a second
\* time
file_autofix ==
    /\ pc \in {"file", "fixed"}
    /\ fs' = autofix_fs(sv_files)
    /\ ran' = Append(ran, "autofix_trailing_whitespace_and_line_endings")
    /\ pc' = IF pc = "file" THEN "fixed" ELSE "refixed"
    /\ UNCHANGED <<storeVars, argv, sv_files, exit_status, llm_prompt, emitted, call,
                   ncalls>>

NextFile ==
    \/ file_check_blocking_in_clocked
    \/ file_check_unnamed_generate_blocks
    \/ file_run_per_file_checks
    \/ file_check_trailing_whitespace
    \/ file_check_windows_line_endings
    \/ file_check_nonblocking_in_comb
    \/ file_check_missing_default_in_case
    \/ file_check_multiple_ports_per_line
    \/ file_check_single_port_per_line
    \/ file_autofix

SpecFile == InitFile /\ [][NextFile]_vars

(***************************************************************************)
(* The issue store under library calls.                                    *)
(***************************************************************************)
AddOps == {"add_critical_issue", "add_style_issue", "add_best_practice_issue",
           "add_performance_issue"}
\* the dict the add function op writes, in the store st
BucketOf(st, op) ==
    CASE op = "add_critical_issue" -> st.critical_issues
      [] op = "add_style_issue" -> st.style_issues
      [] op = "add_best_practice_issue" -> st.best_practice_issues
      [] op = "add_performance_issue" -> st.performance_issues
\* the number of distinct keys of a dict
NumKeys(d) == Cardinality({d[k].title : k \in 1..Len(d)})
AllEmpty ==
    /\ critical_issues = <<>> /\ style_issues = <<>>
    /\ best_practice_issues = <<>> /\ performance_issues = <<>>
\* the step is a call of an add function (call' holds its arguments)
IsAddStep == ncalls' = ncalls + 1 /\ call'.op \in AddOps

\* C1: total_issues is the number of distinct (category, title) keys of the
\* four buckets, no key is held twice, fail is true exactly when
\* total_issues > 0, and fail is false with total_issues 0 exactly when all
\* four buckets are empty.
C1_TotalCountsKeys ==
    /\ total_issues = NumKeys(critical_issues) + NumKeys(style_issues)
                        + NumKeys(best_practice_issues)
                        + NumKeys(performance_issues)
    /\ \A op \in AddOps : NumKeys(BucketOf(Store, op)) = Len(BucketOf(Store, op))
    /\ fail <=> total_issues > 0
    /\ (~fail /\ total_issues = 0) <=> AllEmpty
\* three calls, two of them for the same key: one issue appended to, one other
C1_Witness ==
    /\ ncalls = 3
    /\ total_issues = 2
    /\ \E k \in 1..Len(style_issues) : Contains(style_issues[k].content, "\n")

\* C2: a call of an add function with empty content leaves fail,
\* total_issues and the four buckets as they were.
C2_EmptyContentNoOp ==
    [][(IsAddStep /\ call'.content = "") => UNCHANGED storeVars]_vars
\* an empty-content call made on a store that holds issues
C2_Witness ==
    /\ call.op = "add_critical_issue"
    /\ call.content = ""
    /\ total_issues = 2

\* C3: recording non-empty content c2 for a key that exists with content c1
\* leaves the content c1 + "\n" + c2, the solution given at creation, every
\* other issue and total_issues as they were; two records of one key, made
\* from the empty store, leave total_issues at 1.
C3_AppendStep ==
    (IsAddStep /\ call'.content # "" /\ HasTitle(BucketOf(Store, call'.op), call'.title))
    => /\ Len(BucketOf(Store', call'.op)) = Len(BucketOf(Store, call'.op))
       /\ \A k \in 1..Len(BucketOf(Store, call'.op)) :
            LET old == BucketOf(Store, call'.op)[k]
                new == BucketOf(Store', call'.op)[k]
            IN  IF old.title = call'.title
                THEN /\ new.title = old.title
                     /\ new.content = old.content \o "\n" \o call'.content
                     /\ new.solution = old.solution
                ELSE new = old
       /\ \A op \in AddOps \ {call'.op} : BucketOf(Store', op) = BucketOf(Store, op)
       /\ total_issues' = total_issues
C3_TwoRecordsCountOnce ==
    (/\ ncalls = 2
     /\ call.op \in AddOps
     /\ \E k \in 1..Len(BucketOf(Store, call.op)) :
            /\ BucketOf(Store, call.op)[k].title = call.title
            /\ Contains(BucketOf(Store, call.op)[k].content, "\n"))
    => total_issues = 1
C3_AppendKeepsSolution == [][C3_AppendStep]_vars /\ []C3_TwoRecordsCountOnce
\* a second record of a key, made with another solution than the first
C3_Witness ==
    /\ call.op = "add_style_issue"
    /\ call.content = "/w/rtl/a.sv:2: x"
    /\ call.solution = "second solution"
    /\ \E k \in 1..Len(style_issues) :
          /\ style_issues[k].title = call.title
          /\ style_issues[k].content = "/w/b.sv\n/w/rtl/a.sv:2: x"
          /\ style_issues[k].solution = "first solution"

\* C4: recording non-empty content for a title that is not in the category's
\* bucket adds the issue with the given content and solution at the end of
\* that bucket, sets fail, adds 1 to total_issues and changes no other issue
\* and no other bucket, also when another category holds the same title.
C4_CreateStep ==
    (IsAddStep /\ call'.content # "" /\ ~HasTitle(BucketOf(Store, call'.op), call'.title))
    => /\ BucketOf(Store', call'.op)
            = Append(BucketOf(Store, call'.op),
                     [title |-> call'.title, content |-> call'.content,
                      solution |-> call'.solution])
       /\ \A op \in AddOps \ {call'.op} : BucketOf(Store', op) = BucketOf(Store, op)
       /\ fail'
       /\ total_issues' = total_issues + 1
C4_CreateIssue == [][C4_CreateStep]_vars
\* one title recorded under two categories: two issues, counted twice
C4_Witness ==
    /\ ncalls = 2
    /\ total_issues = 2
    /\ HasTitle(critical_issues, "Tabs detected")
    /\ HasTitle(performance_issues, "Tabs detected")
    /\ call.op = "add_performance_issue"

\* C10: a call of generate_llm_prompt leaves the four buckets, fail and
\* total_issues as they were, and a second call with the same file list
\* returns the text the first returned.
C10_GenerateStep ==
    (ncalls' = ncalls + 1 /\ call'.op = "generate_llm_prompt")
    => /\ UNCHANGED storeVars
       /\ call'.again => llm_prompt' = llm_prompt
Reported == call.op = "generate_llm_prompt"
\* the heading of each category section, in the order of the report, with the
\* add function of its bucket; then the heading that follows the sections
SectionHeads ==
    <<<<"add_critical_issue",
        "## CRITICAL ISSUES (Fix First - Blocks Compilation/Simulation)\n\n">>,
      <<"add_style_issue", "## STYLE ISSUES (Coding Standard Violations)\n\n">>,
      <<"add_best_practice_issue", "## BEST PRACTICE ISSUES (Improve Code Quality)\n\n">>,
      <<"add_performance_issue",
        "## PERFORMANCE ISSUES (Synthesis/Timing Concerns)\n\n">>>>
PlanHead == "## PRIORITIZED ACTION PLAN\n\n"
\* the least element of a non-empty set of numbers
Least(S) == CHOOSE x \in S : \A y \in S : x <= y
\* where the section k that is in the text ends: where the next section, or
\* the action plan, starts
SectionEnd(text, k) ==
    Least(UNION {Occurs(text, SectionHeads[j][2]) : j \in (k + 1)..Len(SectionHeads)}
            \cup Occurs(text, PlanHead)) - 1
\* the text of the section k that is in the text
SectionText(text, k) ==
    SubSeq(text, Least(Occurs(text, SectionHeads[k][2])), SectionEnd(text, k))
\* an issue as a section shows it: number, title, solution, content in a fence
Shown(k, item) ==
    "### " \o ToString(k) \o ". " \o item.title \o "\n\n"
    \o "**Issue:** " \o item.solution \o "\n\n"
    \o "**Affected Files/Lines:**\n" \o BT \o BT \o BT \o "\n" \o item.content
    \o "\n" \o BT \o BT \o BT \o "\n\n"

\* C11: the report holds the heading of a category once when the bucket is not
\* empty and not at all when it is empty; the headings that are present come
\* in the order critical, style, best-practice, performance, before the action
\* plan; and a section shows every issue of its bucket once, and nothing else
\* as an issue.
C11_Sections ==
    Reported =>
        /\ Cardinality(Occurs(llm_prompt, PlanHead)) = 1
        /\ \A k \in 1..Len(SectionHeads) :
            LET d == BucketOf(Store, SectionHeads[k][1])
                at == Occurs(llm_prompt, SectionHeads[k][2])
            IN  IF d = <<>> THEN at = {}
                ELSE /\ Cardinality(at) = 1
                     /\ \A j \in (k + 1)..Len(SectionHeads) :
                           \A a \in at, b \in Occurs(llm_prompt, SectionHeads[j][2]) : a < b
                     /\ \A a \in at, b \in Occurs(llm_prompt, PlanHead) : a < b
                     /\ \A i \in 1..Len(d) :
                           Cardinality(Occurs(SectionText(llm_prompt, k), Shown(i, d[i]))) = 1
                     /\ Cardinality(Occurs(SectionText(llm_prompt, k), "### ")) = Len(d)
\* a report of a store with a performance issue and a critical issue and
\* nothing else: two sections
C11_Witness ==
    /\ Reported
    /\ critical_issues # <<>> /\ performance_issues # <<>>
    /\ style_issues = <<>> /\ best_practice_issues = <<>>
    /\ Contains(llm_prompt, SectionHeads[1][2])
    /\ Contains(llm_prompt, SectionHeads[4][2])

\* the text between the first a and the first b after it
Between(text, a, b) ==
    LET from == Least(Occurs(text, a)) + Len(a)
        to == Least({i \in Occurs(text, b) : i >= from}) - 1
    IN  IF to < from THEN "" ELSE SubSeq(text, from, to)
\* one unchecked line per title of the dict d, in the order of d
RECURSIVE PlanLines(_, _)
PlanLines(verb, d) ==
    IF d = <<>> THEN ""
    ELSE "- [ ] " \o verb \o ": " \o d[1].title \o "\n" \o PlanLines(verb, Tail(d))

\* C12: in the action plan, phase 1 is one "Fix" line per critical title, or
\* the single none-found line when there is no critical issue; phase 2 the same
\* for style; phase 3 is the "Improve" lines of the best-practice titles then
\* the "Optimize" lines of the performance titles, or the single none-found
\* line when both buckets are empty.  No phase is empty.
C12_ActionPlan ==
    Reported =>
        LET phase1 == Between(llm_prompt, "### Phase 1: Critical Fixes (Do First)\n",
                              "\n### Phase 2: Style Consistency\n")
            phase2 == Between(llm_prompt, "\n### Phase 2: Style Consistency\n",
                              "\n### Phase 3: Best Practices & Performance\n")
            phase3 == Between(llm_prompt, "\n### Phase 3: Best Practices & Performance\n",
                              "\n## IMPLEMENTATION GUIDANCE\n")
        IN  /\ phase1 = IF critical_issues = <<>>
                        THEN "- [x] No critical issues found\n"
                        ELSE PlanLines("Fix", critical_issues)
            /\ phase2 = IF style_issues = <<>>
                        THEN "- [x] No style issues found\n"
                        ELSE PlanLines("Fix", style_issues)
            /\ phase3 = IF best_practice_issues = <<>> /\ performance_issues = <<>>
                        THEN "- [x] No best practice or performance issues found\n"
                        ELSE PlanLines("Improve", best_practice_issues)
                             \o PlanLines("Optimize", performance_issues)
            /\ phase1 # "" /\ phase2 # "" /\ phase3 # ""
\* a report of a store with performance issues only: phase 3 lists them, and
\* phases 1 and 2 are the none-found lines
C12_Witness ==
    /\ Reported
    /\ critical_issues = <<>> /\ style_issues = <<>> /\ best_practice_issues = <<>>
    /\ Len(performance_issues) = 2
    /\ Contains(llm_prompt, "- [x] No critical issues found\n")
    /\ Contains(llm_prompt, "- [ ] Optimize: Tabs detected\n")

(***************************************************************************)
(* Claims about a run of main, checked under SpecRun.                      *)
(***************************************************************************)
\* the analysed files that can be read
ReadableFiles == SelectSeq(sv_files, LAMBDA f : fs[f].ok)
\* the store after the detector call d of main on the file list files
RunDetector(d, st, files) ==
    CASE d = "check_c_style_braces" -> check_c_style_braces(st, files)
      [] d = "check_tabs" -> check_tabs(st, files)
      [] d = "check_line_length" -> check_line_length(st, files)
      [] d = "check_timescale" -> check_timescale(st, files)
      [] d = "check_default_nettype" -> check_default_nettype(st, files)
      [] d = "check_trailing_whitespace" -> check_trailing_whitespace(st, files)
      [] d = "check_windows_line_endings" -> check_windows_line_endings(st, files)
      [] d = "check_blocking_in_clocked" -> check_blocking_in_clocked(st, files)
      [] d = "check_nonblocking_in_comb" -> check_nonblocking_in_comb(st, files)
      [] d = "check_case_types" -> check_case_types(st, files)
      [] d = "check_missing_default_in_case" -> check_missing_default_in_case(st, files)
      [] d = "run_per_file_checks" -> run_per_file_checks(st, files)
      [] d = "check_unnamed_generate_blocks" -> check_unnamed_generate_blocks(st, files)
      [] d = "check_multiple_ports_per_line" -> check_multiple_ports_per_line(st, files)
      [] d = "check_single_port_per_line" -> check_single_port_per_line(st, files)
\* the store after the detector calls ds, in order, from the store st
RECURSIVE RunAll(_, _, _)
RunAll(ds, st, files) ==
    IF ds = <<>> THEN st
    ELSE RunAll(Tail(ds), RunDetector(Head(ds), st, files), files)
\* the lines of the content recorded under title in the dict d
ContentLines(d, title) ==
    IF HasTitle(d, title) THEN Split(Item(d, title).content, "\n") ELSE <<>>
\* how many elements of the sequence q equal x
Count(q, x) == Cardinality({k \in 1..Len(q) : q[k] = x})
\* every record of the four dicts of the store st
AllItems(st) ==
    {st.critical_issues[k] : k \in 1..Len(st.critical_issues)}
        \cup {st.style_issues[k] : k \in 1..Len(st.style_issues)}
        \cup {st.best_practice_issues[k] : k \in 1..Len(st.best_practice_issues)}
        \cup {st.performance_issues[k] : k \in 1..Len(st.performance_issues)}
\* the run is over
Exited == pc = "exit"
\* the run is over and has gone through the detectors
FullRun == pc = "exit" /\ sv_files # <<>>

\* C5: the run ends with status 0 exactly when fail is false and no issue is
\* recorded, with status 1 exactly when at least one issue is recorded; the
\* report is generated and emitted exactly when the status is 1; a run that
\* finds no .sv file ends with status 0 and has run no detector.
C5_ExitStatus ==
    /\ ~Exited => (exit_status = -1 /\ ~emitted)
    /\ Exited =>
        /\ exit_status \in {0, 1}
        /\ exit_status = 0 <=> ~fail
        /\ exit_status = 0 <=> AllEmpty
        /\ exit_status = 1 <=> total_issues > 0
        /\ emitted <=> exit_status = 1
        /\ emitted => llm_prompt = generate_llm_prompt(Store, sv_files)
        /\ sv_files = <<>> => (exit_status = 0 /\ ran = <<>>)
        /\ sv_files # <<>> => ran = Detectors
\* a run over two files that ends with status 1 and the report
C5_Witness ==
    /\ Exited
    /\ Len(sv_files) = 2
    /\ exit_status = 1
    /\ emitted
    /\ Contains(llm_prompt, "Missing default_nettype directive")
\* a run over files that ends with status 0
C5_CleanRun ==
    /\ Exited
    /\ sv_files # <<>>
    /\ ran = Detectors
    /\ exit_status = 0

\* C6: the detector calls run in the order of main, all 15 of them when there
\* are files; whatever files are unreadable, every call leaves the store the
\* same call leaves on the readable files alone, and no record names an
\* unreadable file.
C6_DetectorStep ==
    ran' # ran =>
        /\ Len(ran') = Len(ran) + 1
        /\ ran' = SubSeq(Detectors, 1, Len(ran'))
        /\ Store' = RunDetector(Detectors[Len(ran')], Store, ReadableFiles)
C6_NoUnreadableRecorded ==
    /\ FullRun => ran = Detectors
    /\ \A k \in 1..Len(sv_files) :
          ~fs[sv_files[k]].ok =>
              \A item \in AllItems(Store) : ~Contains(item.content, sv_files[k])
C6_UnreadableSkipped == [][C6_DetectorStep]_vars /\ []C6_NoUnreadableRecorded
\* a full run over an unreadable file followed by a readable file that is
\* recorded
C6_Witness ==
    /\ FullRun
    /\ Len(sv_files) = 2
    /\ ~fs[sv_files[1]].ok
    /\ fs[sv_files[2]].ok
    /\ ContentLines(critical_issues, "Missing default_nettype directive")
          = <<sv_files[2]>>
    /\ total_issues > 4

\* C7: after a full run, every readable analysed file whose bytes hold no
\* `timescale is exactly one line of the content of the critical issue
\* "Missing timescale directive", and a readable file whose bytes hold the
\* marker is no line of it.
C7_TimescaleOnce ==
    FullRun =>
        \A k \in 1..Len(sv_files) :
            LET f == sv_files[k]
                listed == ContentLines(critical_issues, "Missing timescale directive")
            IN  fs[f].ok =>
                    IF Contains(fs[f].data, BT \o "timescale")
                    THEN Count(listed, f) = 0
                    ELSE /\ HasTitle(critical_issues, "Missing timescale directive")
                         /\ Count(listed, f) = 1
\* a full run over two files of two lines without the marker, both also
\* recorded by other detectors
C7_Witness ==
    /\ FullRun
    /\ Len(sv_files) = 2
    /\ \A k \in 1..2 : fs[sv_files[k]].ok /\ Len(ReadLines(sv_files[k])) = 2
    /\ ContentLines(critical_issues, "Missing timescale directive") = sv_files
    /\ StartsWith(Item(style_issues, "Missing or incomplete file header").content,
                  sv_files[1])
    /\ HasTitle(performance_issues, "Blocking assignments in clocked logic")

\* C8: a full run over the one file "module m; endmodule" leaves the critical
\* issues "Missing timescale directive" and "Missing default_nettype
\* directive" and the best-practice issues "Non-ANSI module declarations" and
\* "Files without comments", each with the file as a line of its content.
C8_Scenario ==
    (/\ FullRun
     /\ Len(sv_files) = 1
     /\ fs[sv_files[1]].ok
     /\ RStripNL(fs[sv_files[1]].data) = "module m; endmodule")
    => /\ Count(ContentLines(critical_issues, "Missing timescale directive"),
                sv_files[1]) = 1
       /\ Count(ContentLines(critical_issues, "Missing default_nettype directive"),
                sv_files[1]) = 1
       /\ Count(ContentLines(best_practice_issues, "Non-ANSI module declarations"),
                sv_files[1]) = 1
       /\ Count(ContentLines(best_practice_issues, "Files without comments"),
                sv_files[1]) = 1
       /\ total_issues >= 4
\* the run of the scenario is over
C8_Witness ==
    /\ FullRun
    /\ sv_files = <<"/w/b.sv">>
    /\ fs["/w/b.sv"].ok
    /\ fs["/w/b.sv"].data = "module m; endmodule"
    /\ HasTitle(best_practice_issues, "Non-ANSI module declarations")

\* the region-gated detectors of main and the issue each one records
RegionChecks ==
    {<<"check_blocking_in_clocked", "add_performance_issue",
       "Blocking assignments in clocked logic">>,
     <<"check_nonblocking_in_comb", "add_performance_issue",
       "Non-blocking assignments in combinational logic">>,
     <<"check_unnamed_generate_blocks", "add_best_practice_issue",
       "Unnamed generate blocks (context-aware)">>,
     <<"run_per_file_checks", "add_best_practice_issue",
       "Unguarded initial block(s) detected">>,
     <<"check_multiple_ports_per_line", "add_style_issue",
       "Multiple ports per line in module header">>,
     <<"check_single_port_per_line", "add_style_issue",
       "Multiple port declarations per line in module header">>}
\* the lines the detector of rc records for the file f analysed alone
AloneLines(rc, f) ==
    ContentLines(BucketOf(RunDetector(rc[1], EmptyStore, <<f>>), rc[2]), rc[3])

\* C9: after a full run, what each region-gated detector has recorded is, file
\* after file, what it records for each file analysed alone: no file's
\* findings depend on the files before it.
C9_NoRegionLeak ==
    FullRun =>
        \A rc \in RegionChecks :
            ContentLines(BucketOf(Store, rc[2]), rc[3])
                = Flatten([k \in 1..Len(sv_files) |-> AloneLines(rc, sv_files[k])])
\* a full run where the first file ends inside a clocked block and the second
\* starts with a blocking assignment, which is not recorded
C9_Witness ==
    /\ FullRun
    /\ Len(sv_files) = 2
    /\ \A k \in 1..2 : fs[sv_files[k]].ok
    /\ LET l1 == ReadLines(sv_files[1])
           l2 == ReadLines(sv_files[2])
       IN  /\ ClockedAfter(l1, Len(l1), FALSE)
           /\ l2 # <<>>
           /\ blocking_assign_re(l2[1])
           /\ ~IsCommentLine(l2[1])
           /\ ~Contains(l2[1], "end")
    /\ \A k \in 1..Len(ContentLines(performance_issues,
                                    "Blocking assignments in clocked logic")) :
          ~StartsWith(ContentLines(performance_issues,
                                   "Blocking assignments in clocked logic")[k],
                      sv_files[2] \o ":1:")

\* the rows of the example table: the add function of the bucket, the title
\* the detector records, the example
ExampleRows ==
    {<<"add_style_issue", "C-style curly braces detected", ExampleBraces>>,
     <<"add_style_issue", "Tabs detected", ExampleTabs>>,
     <<"add_style_issue", "Lines longer than 120 characters", ExampleLongLines>>,
     <<"add_style_issue", "Multiple ports per line in module header", ExamplePorts>>,
     <<"add_best_practice_issue", "Missing default cases in case statements",
       ExampleDefault>>,
     <<"add_best_practice_issue", "Missing comments before always blocks",
       ExampleComment>>,
     <<"add_best_practice_issue", "Unnamed generate blocks (context-aware)",
       ExampleGenerate>>,
     <<"add_best_practice_issue", "Unguarded initial block(s) detected",
       ExampleInitial>>,
     <<"add_performance_issue", "Blocking assignments in clocked logic",
       ExampleNonBlocking>>,
     <<"add_performance_issue", "Non-blocking assignments in combinational logic",
       ExampleBlocking>>}

\* C13: in the report of a run, every issue recorded under the title of a row
\* of the example table is shown followed by the example of the row.
C13_ExamplesRendered ==
    (FullRun /\ emitted) =>
        \A row \in ExampleRows :
            LET d == BucketOf(Store, row[1])
            IN  \A k \in 1..Len(d) :
                    d[k].title = row[2]
                        => Contains(llm_prompt, Shown(k, d[k]) \o row[3])

\* the analysed files that a line of the content of some issue names: the line
\* is the path, or the path followed by ":" or by " ("
FilesNamed ==
    {f \in {sv_files[k] : k \in 1..Len(sv_files)} :
        \E item \in AllItems(Store) :
            LET ls == Split(item.content, "\n")
            IN  \E i \in 1..Len(ls) :
                    \/ ls[i] = f
                    \/ StartsWith(ls[i], f \o ":")
                    \/ StartsWith(ls[i], f \o " (")}

\* C14: the "Files with Issues" line of the report of a run gives the number of
\* analysed files named in the content of at least one issue, each counted
\* once.
C14_FilesWithIssues ==
    (FullRun /\ emitted) =>
        Contains(llm_prompt,
                 "- **Files with Issues:** " \o ToString(Cardinality(FilesNamed)) \o "\n")

\* the detectors that have finished
Finished == {ran[k] : k \in 1..Len(ran)}
PresenceChecks == {"check_timescale", "check_default_nettype"}
StylePatternChecks ==
    {"check_c_style_braces", "check_tabs", "check_line_length",
     "check_trailing_whitespace", "check_windows_line_endings", "check_case_types"}
\* the order of the calls as the amended claim states it
MainOrder ==
    <<"check_c_style_braces", "check_tabs", "check_line_length",
      "check_timescale", "check_default_nettype",
      "check_trailing_whitespace", "check_windows_line_endings",
      "check_blocking_in_clocked", "check_nonblocking_in_comb",
      "check_case_types", "check_missing_default_in_case",
      "run_per_file_checks",
      "check_unnamed_generate_blocks", "check_multiple_ports_per_line",
      "check_single_port_per_line">>

\* C15 as stated: no style/pattern detector starts, or has finished, before
\* both presence detectors have finished.
C15_PresenceFirst ==
    \A d \in StylePatternChecks :
        (pc = d \/ d \in Finished) => PresenceChecks \subseteq Finished
\* C15 as amended: a step that finishes a detector finishes the one that was
\* about to run, which is the next one of the order of main (the three
\* style checks braces, tabs and line length, then the two presence checks,
\* then the rest); no detector starts before the one before it has finished,
\* and a run over files finishes all 15.
C15_OrderStep ==
    ran' # ran =>
        /\ Len(ran') = Len(ran) + 1
        /\ SubSeq(ran', 1, Len(ran)) = ran
        /\ ran'[Len(ran')] = pc
        /\ pc = MainOrder[Len(ran')]
C15_OneAtATime ==
    /\ pc \in Finished \cup {"main", "lib", "summary", "exit"}
          \/ pc = MainOrder[Len(ran) + 1]
    /\ FullRun => ran = MainOrder
C15_MainOrder == [][C15_OrderStep]_vars /\ []C15_OneAtATime
\* the three style checks have finished and the first presence check is about
\* to start
C15_Witness ==
    /\ ran = <<"check_c_style_braces", "check_tabs", "check_line_length">>
    /\ pc = "check_timescale"
    /\ style_issues = <<>>
    /\ Len(sv_files) = 2

(***************************************************************************)
(* Claims on the detectors and the autofix, over one file (SpecFile).      *)
(***************************************************************************)
\* the file as text (universal newlines) and its lines
FileText == UniversalNewlines(fs[TheFile].data)
FileLines == Split(FileText, "\n")
\* the state after the one call of the detector d on the file as it was given
CheckedBy(d) == pc = "checked" /\ ran = <<d>>

\* a line beginning with the module keyword
BeginsWithModule(line) ==
    LET t == LStrip(line) IN StartsWith(t, "module") /\ ~IsWordAt(t, 7)
ModuleDeclarations ==
    Cardinality({k \in 1..Len(FileLines) : BeginsWithModule(FileLines[k])})
\* C16: after run_per_file_checks, a file with more than one line beginning
\* with the module keyword has the entry "<file> (<count> modules)" under
\* "Multiple modules per file", and a file with at most one has no entry.
C16_MultipleModules ==
    CheckedBy("run_per_file_checks") =>
        IF ModuleDeclarations > 1
        THEN /\ HasTitle(best_practice_issues, "Multiple modules per file")
             /\ Item(best_practice_issues, "Multiple modules per file").content
                    = TheFile \o " (" \o ToString(ModuleDeclarations) \o " modules)"
        ELSE ~HasTitle(best_practice_issues, "Multiple modules per file")

\* a non-ANSI module header: module <name>; with no port list
NonAnsiLine(line) ==
    LET t == LStrip(line)
        k == SkipFwd(t, 7, SpaceChars)
        m == SkipFwd(t, k, WordChars)
        n == SkipFwd(t, m, SpaceChars)
    IN  StartsWith(t, "module") /\ k > 7 /\ m > k /\ At(t, n) = ";"
HasNonAnsiLine == \E k \in 1..Len(FileLines) : NonAnsiLine(FileLines[k])
\* C17: after run_per_file_checks, the file is listed under "Non-ANSI module
\* declarations" exactly when one of its lines, wherever it stands, is a
\* non-ANSI module header.
C17_NonAnsiListed ==
    CheckedBy("run_per_file_checks") =>
        IF HasNonAnsiLine
        THEN /\ HasTitle(best_practice_issues, "Non-ANSI module declarations")
             /\ Item(best_practice_issues, "Non-ANSI module declarations").content = TheFile
        ELSE ~HasTitle(best_practice_issues, "Non-ANSI module declarations")

\* the line has an = with none of =, <, > right before or right after it
HasBlockingAssign(line) ==
    \E e \in Occurs(line, "=") :
        /\ At(line, e + 1) \notin {"=", "<", ">"}
        /\ At(line, e - 1) \notin {"=", "<", ">"}
\* the finding of line i of the file, as the detectors write it
FindingAt(i) ==
    TheFile \o ":" \o ToString(i) \o ": " \o Strip(ReadLines(TheFile)[i])
\* the numbers of the lines the clocked-block check is to flag
BlockingLines ==
    LET lines == ReadLines(TheFile)
    IN  {i \in 1..Len(lines) :
            /\ ClockedAtCheck(lines, i, FALSE)
            /\ ~StartsWith(Strip(lines[i]), "//")
            /\ HasBlockingAssign(lines[i])}
\* C18: after check_blocking_in_clocked, each line tested inside the clocked
\* region that is no comment line and has an = without =, < or > next to it is
\* one line under "Blocking assignments in clocked logic", whatever stands to
\* the left of the =, and no other line of the file is recorded.
C18_BlockingFlagged ==
    CheckedBy("check_blocking_in_clocked") =>
        \A i \in 1..Len(ReadLines(TheFile)) :
            Count(ContentLines(performance_issues, "Blocking assignments in clocked logic"),
                  FindingAt(i))
                = IF i \in BlockingLines THEN 1 ELSE 0

\* line i lies between a generate line and the next endgenerate line
InGenerateRegion(i) ==
    LET lines == ReadLines(TheFile)
    IN  \E g \in 1..(i - 1) :
            /\ HasWord(lines[g], "generate")
            /\ \A j \in (g + 1)..(i - 1) : ~HasWord(lines[j], "endgenerate")
\* the line starts with for or if and ends in a begin that has no label
UnlabeledBegin(line) ==
    LET t == Strip(line)
    IN  /\ \E kw \in {"for", "if"} : StartsWith(t, kw) /\ ~IsWordAt(t, Len(kw) + 1)
        /\ Len(t) > 5
        /\ From(t, Len(t) - 4) = "begin"
        /\ ~IsWordAt(t, Len(t) - 5)
UnnamedLines ==
    {i \in 1..Len(ReadLines(TheFile)) :
        InGenerateRegion(i) /\ UnlabeledBegin(ReadLines(TheFile)[i])}
\* a for/if ... begin line that is itself a generate or an endgenerate line
\* lies neither between the two nor outside a region
OnGenerateBoundary(i) ==
    LET line == ReadLines(TheFile)[i]
    IN  (HasWord(line, "generate") \/ HasWord(line, "endgenerate")) /\ UnlabeledBegin(line)
\* C19: after check_unnamed_generate_blocks, a for/if line that ends in an
\* unlabeled begin and lies between a generate line and the next endgenerate
\* line is exactly one line under "Unnamed generate blocks (context-aware)",
\* with its number counted from 1; a line with begin : <identifier> and a line
\* outside every generate..endgenerate region are not recorded.
C19_UnnamedGenerate ==
    CheckedBy("check_unnamed_generate_blocks") =>
        \A i \in 1..Len(ReadLines(TheFile)) :
            ~OnGenerateBoundary(i) =>
                Count(ContentLines(best_practice_issues,
                                   "Unnamed generate blocks (context-aware)"),
                      FindingAt(i))
                    = IF i \in UnnamedLines THEN 1 ELSE 0
\* the scenario: the unlabeled begin on line 2 of a generate block is the one
\* finding of the file
C19_Witness ==
    /\ CheckedBy("check_unnamed_generate_blocks")
    /\ fs[TheFile].data = "generate\nfor (i=0;i<4;i++) begin\nendgenerate\n"
    /\ UnnamedLines = {2}
    /\ Item(best_practice_issues, "Unnamed generate blocks (context-aware)").content
            = "/w/b.sv:2: for (i=0;i<4;i++) begin"

\* a detector was called after the autofix had run on the file
CheckedAfterAutofix ==
    /\ pc = "checked"
    /\ ran[1] = "autofix_trailing_whitespace_and_line_endings"
\* no bucket has an item under one of the two titles
C20_NothingRecorded ==
    CheckedAfterAutofix =>
        \A item \in AllItems(Store) :
            item.title \notin {"Trailing whitespace detected",
                               "Windows line endings (CRLF) detected"}
\* the second run of the autofix writes back what it read
C20_SecondAutofixStep ==
    (pc = "fixed" /\ pc' = "refixed") => fs' = fs
\* C20: whatever the file held, after the autofix has run on it the checks of
\* trailing whitespace and of CRLF line endings record nothing for it, and a
\* second run of the autofix leaves the file as the first run left it.
C20_AutofixRepairs == [][C20_SecondAutofixStep]_vars /\ []C20_NothingRecorded
\* the file "a \r\nb\t\n", the only one the autofix turns into "a\nb\n", was
\* fixed twice and then checked for trailing whitespace: nothing is recorded
C20_Witness ==
    /\ CheckedAfterAutofix
    /\ ran = <<"autofix_trailing_whitespace_and_line_endings",
               "autofix_trailing_whitespace_and_line_endings",
               "check_trailing_whitespace">>
    /\ fs[TheFile].data = "a\nb\n"
    /\ total_issues = 0

\* line i is evaluated inside the clocked region when only a line with the bare
\* word end exits it: an opener stands before it and no line with the word end
\* lies between the opener and line i, line i included
InClockedRegionBareEnd(i) ==
    LET lines == ReadLines(TheFile)
    IN  /\ ~HasWord(lines[i], "end")
        /\ \E g \in 1..(i - 1) :
              /\ clocked_block_re(lines[g])
              /\ \A j \in (g + 1)..(i - 1) : ~HasWord(lines[j], "end")
\* C21: in check_blocking_in_clocked a line in which the letters end occur only
\* inside a longer word (pending, endcase) does not exit the region: that line
\* and the lines after it are evaluated as inside the clocked block, so the
\* recorded lines are the non-comment assignment lines of the region that only
\* the bare word end closes.
C21_BareEndExits ==
    CheckedBy("check_blocking_in_clocked") =>
        \A i \in 1..Len(ReadLines(TheFile)) :
            Count(ContentLines(performance_issues, "Blocking assignments in clocked logic"),
                  FindingAt(i))
                = IF /\ InClockedRegionBareEnd(i)
                     /\ ~IsCommentLine(ReadLines(TheFile)[i])
                     /\ blocking_assign_re(ReadLines(TheFile)[i])
                  THEN 1 ELSE 0

\* the region when line i is evaluated: a line g with the enter pattern, from
\* which the region is active after a lines, and no line with the exit pattern
\* from there up to b lines before line i
RegionAt(i, Enter(_), Exit(_), a, b) ==
    LET lines == ReadLines(TheFile)
    IN  \E g \in 1..(i - a) :
            /\ Enter(lines[g])
            /\ \A j \in (g + a)..(i - b) : ~Exit(lines[j])
\* the lines under the title are the findings of exactly the lines that Want holds of
Flags(d, title, Want(_)) ==
    \A i \in 1..Len(ReadLines(TheFile)) :
        Count(ContentLines(d, title), FindingAt(i)) = IF Want(i) THEN 1 ELSE 0
\* the detector d has been called on the file as it was given
Called(d) ==
    /\ pc = "checked"
    /\ ran[1] # "autofix_trailing_whitespace_and_line_endings"
    /\ \E k \in 1..Len(ran) : ran[k] = d
\* each detector's findings under a region that is entered a lines after the
\* enter line and left b lines after the exit line (with the detector's patterns)
ClockedFollows(a, b) ==
    Called("check_blocking_in_clocked") =>
        Flags(performance_issues, "Blocking assignments in clocked logic",
              LAMBDA i :
                /\ RegionAt(i, clocked_block_re, LAMBDA l : Contains(l, "end"), a, b)
                /\ ~IsCommentLine(ReadLines(TheFile)[i])
                /\ blocking_assign_re(ReadLines(TheFile)[i]))
CombFollows(a, b) ==
    Called("check_nonblocking_in_comb") =>
        Flags(performance_issues, "Non-blocking assignments in combinational logic",
              LAMBDA i :
                /\ RegionAt(i, comb_block_re, LAMBDA l : Contains(l, "end"), a, b)
                /\ ~IsCommentLine(ReadLines(TheFile)[i])
                /\ nonblocking_assign_re(ReadLines(TheFile)[i]))
GenerateFollows(a, b) ==
    Called("check_unnamed_generate_blocks") =>
        Flags(best_practice_issues, "Unnamed generate blocks (context-aware)",
              LAMBDA i :
                /\ RegionAt(i, LAMBDA l : HasWord(l, "generate"),
                            LAMBDA l : HasWord(l, "endgenerate"), a, b)
                /\ for_if_begin_re(ReadLines(TheFile)[i])
                /\ ~begin_label_re(ReadLines(TheFile)[i]))
GuardFollows(a, b) ==
    Called("run_per_file_checks") =>
        Flags(best_practice_issues, "Unguarded initial block(s) detected",
              LAMBDA i :
                /\ ~RegionAt(i, LAMBDA l : Contains(l, BT \o "ifndef SYNTHESIS"),
                             LAMBDA l : Contains(l, BT \o "endif"), a, b)
                /\ HasWord(ReadLines(TheFile)[i], "initial"))
HeaderFollows(a, b) ==
    /\ Called("check_multiple_ports_per_line") =>
        Flags(style_issues, "Multiple ports per line in module header",
              LAMBDA i :
                /\ RegionAt(i, module_header_re, end_header_re, a, b)
                /\ port_then_comma(ReadLines(TheFile)[i]))
    /\ Called("check_single_port_per_line") =>
        Flags(style_issues, "Multiple port declarations per line in module header",
              LAMBDA i :
                /\ RegionAt(i, module_header_re, end_header_re, a, b)
                /\ Cardinality(PortMatches(ReadLines(TheFile)[i])) > 1)
\* C22 as stated: every region-gated detector evaluates a line that matches its
\* exit pattern with the region inactive, and a line that matches its enter
\* pattern with the region as it was, the region being active from the next
\* line on.
C22_LineStateTracker ==
    /\ ClockedFollows(1, 0) /\ CombFollows(1, 0)
    /\ GenerateFollows(1, 0) /\ GuardFollows(1, 0) /\ HeaderFollows(1, 0)
\* C22 amended: the clocked-block and the combinational-block detectors
\* evaluate the exit line with the region inactive and enter the region from
\* the line after the enter line; the generate and the synthesis-guard
\* detectors apply the enter pattern, then the exit pattern, before they
\* evaluate the line; the two module-header detectors evaluate both the enter
\* line and the exit line with the region active.
C22_RegionOrder ==
    /\ ClockedFollows(1, 0) /\ CombFollows(1, 0)
    /\ GenerateFollows(0, 0) /\ GuardFollows(0, 0) /\ HeaderFollows(0, 1)
\* a header on one line, evaluated inside its own region, and the line after it
\* evaluated outside
C22_Witness ==
    /\ CheckedBy("check_single_port_per_line")
    /\ fs[TheFile].data = "module m (input a, output b);\ninput a, input b,\n"
    /\ Item(style_issues, "Multiple port declarations per line in module header").content
            = "/w/b.sv:1: module m (input a, output b);"

\* a line that opens a combinational block
CombOpener(line) == Contains(line, "always_comb") \/ Contains(line, "always @(*)")
\* line i is evaluated inside a region opened by an earlier always_comb or
\* always @(*) line and not yet closed by a line with the word end
InCombRegion(i) ==
    LET lines == ReadLines(TheFile)
    IN  /\ ~HasWord(lines[i], "end")
        /\ \E g \in 1..(i - 1) :
              /\ CombOpener(lines[g])
              /\ \A j \in (g + 1)..(i - 1) : ~HasWord(lines[j], "end")
\* C23: after check_nonblocking_in_comb the lines under "Non-blocking
\* assignments in combinational logic" are exactly the lines evaluated inside
\* an open combinational region that are no comment lines and contain <=; the
\* opener line of a region and its closing end line are not among them.
C23_CombFlagged ==
    CheckedBy("check_nonblocking_in_comb") =>
        Flags(performance_issues, "Non-blocking assignments in combinational logic",
              LAMBDA i :
                /\ InCombRegion(i)
                /\ ~StartsWith(Strip(ReadLines(TheFile)[i]), "//")
                /\ Contains(ReadLines(TheFile)[i], "<="))

\* line i lies inside a guard region: a line with `ifndef SYNTHESIS before it
\* and no line with `endif between the two
InGuardRegion(i) ==
    LET lines == ReadLines(TheFile)
    IN  \E g \in 1..(i - 1) :
            /\ Contains(lines[g], BT \o "ifndef SYNTHESIS")
            /\ \A j \in (g + 1)..(i - 1) : ~Contains(lines[j], BT \o "endif")
\* line i is itself the first or the last line of a guard region
OnGuardBoundary(i) ==
    \/ Contains(ReadLines(TheFile)[i], BT \o "ifndef SYNTHESIS")
    \/ Contains(ReadLines(TheFile)[i], BT \o "endif")
HeaderStart(line) == StartsWith(LStrip(line), "module ") /\ Contains(line, "(")
HeaderEnd(line) == Contains(line, ");")
\* line i lies in a header region, its first and its last line included
InHeaderRegion(i) ==
    LET lines == ReadLines(TheFile)
    IN  \E g \in 1..i :
            /\ HeaderStart(lines[g])
            /\ \A j \in g..(i - 1) : ~HeaderEnd(lines[j])
\* the input, output and inout keywords of a line, by position
PortKeywordsAt(line) ==
    {p \in 1..Len(line) : \E kw \in {"input", "output", "inout"} : p \in WordOccurs(line, kw)}
\* a port keyword with a comma somewhere after it
KeywordThenComma(line) ==
    \E p \in PortKeywordsAt(line) : \E c \in Occurs(line, ",") : c > p
CommaInsideList(line) ==
    LET cmt == Occurs(line, "//")
        code == RStrip(IF cmt = {} THEN line
                       ELSE Upto(line, (CHOOSE x \in cmt : \A y \in cmt : x <= y) - 1))
    IN  \E p \in PortKeywordsAt(code) :
            \E c \in Occurs(code, ",") : c > p /\ c < Len(code)
\* C26: check_multiple_ports_per_line records a header line only when a comma
\* stands in its port list somewhere else than at the end of the line: a line
\* that declares one port and ends with the separating comma is not recorded.
C26_CommaNotAtEnd ==
    Called("check_multiple_ports_per_line") =>
        \A i \in 1..Len(ReadLines(TheFile)) :
            Count(ContentLines(style_issues, "Multiple ports per line in module header"),
                  FindingAt(i)) > 0
                => CommaInsideList(ReadLines(TheFile)[i])

\* the case keywords of the file, by position
CaseWords == WordOccurs(FileText, "case")
\* the case..endcase blocks of the file as <<first, last>> positions: a block
\* starts at a case keyword that no earlier, still open case precedes and ends
\* with the next endcase
CaseSpans ==
    {<<c, e>> \in CaseWords \X Occurs(FileText, "endcase") :
        /\ e > c
        /\ \A x \in Occurs(FileText, "endcase") : x > c => x >= e
        /\ \A b \in CaseWords :
              b < c => \E x \in Occurs(FileText, "endcase") : b < x /\ x < c}
\* the default occurrences that lie inside a block
DefaultsInBlocks ==
    {p \in Occurs(FileText, "default") : \E sp \in CaseSpans : sp[1] < p /\ p < sp[2]}
\* the blocks that hold a default
BlocksWithDefault ==
    {sp \in CaseSpans : \E p \in Occurs(FileText, "default") : sp[1] < p /\ p < sp[2]}
MissingDefaultFlagged ==
    HasTitle(best_practice_issues, "Missing default cases in case statements")
\* C27 as stated: the file is flagged exactly when it has more case keywords
\* than default occurrences inside its case..endcase blocks.
C27_DefaultOccurrences ==
    CheckedBy("check_missing_default_in_case") =>
        (MissingDefaultFlagged <=> Cardinality(CaseWords) > Cardinality(DefaultsInBlocks))
\* C27 amended: the file is flagged exactly when it has more case keywords than
\* case..endcase blocks that hold a default, and the entry gives the two
\* numbers; two blocks of which one holds two defaults and the other none make
\* 2 against 1, and the file is flagged.
C27_BlocksWithDefault ==
    CheckedBy("check_missing_default_in_case") =>
        IF Cardinality(CaseWords) > Cardinality(BlocksWithDefault)
        THEN /\ MissingDefaultFlagged
             /\ Item(best_practice_issues, "Missing default cases in case statements").content
                    = TheFile \o " (has " \o ToString(Cardinality(CaseWords))
                        \o " case statements but only "
                        \o ToString(Cardinality(BlocksWithDefault)) \o " default clauses)"
        ELSE ~MissingDefaultFlagged
\* the example of the claim: one block with two defaults, one with none
C27_Witness ==
    /\ CheckedBy("check_missing_default_in_case")
    /\ fs[TheFile].data = "case (a) default: ; default: ; endcase\ncase (b) 0: ; endcase\n"
    /\ Cardinality(DefaultsInBlocks) = 2
    /\ Item(best_practice_issues, "Missing default cases in case statements").content
            = "/w/b.sv (has 2 case statements but only 1 default clauses)"

\* the line holds a comment marker
HasCommentMarker(line) == Contains(line, "//") \/ Contains(line, "/*")
\* the line opens a clocked or a combinational block, in one of the four forms
BlockOpener(line) ==
    \/ Contains(line, "always_ff") \/ Contains(line, "always_comb")
    \/ Contains(line, "always @(posedge") \/ Contains(line, "always @(*)")
\* the lines under "Missing comments before always blocks" are the entries
\* file:line of exactly the lines that Want holds of
MissingCommentAt(Want(_)) ==
    \A i \in 1..Len(ReadLines(TheFile)) :
        Count(ContentLines(best_practice_issues, "Missing comments before always blocks"),
              TheFile \o ":" \o ToString(i))
            = IF Want(i) THEN 1 ELSE 0
\* C28 as stated: every opener of a clocked or combinational block, in any of
\* the four forms, that has no line with a comment marker right before it is
\* recorded as file:line, an opener on the first line of the file included.
C28_EveryOpener ==
    CheckedBy("run_per_file_checks") =>
        MissingCommentAt(LAMBDA i :
            /\ BlockOpener(ReadLines(TheFile)[i])
            /\ (i = 1 \/ ~HasCommentMarker(ReadLines(TheFile)[i - 1])))
\* C28 amended: a line with always_ff or always_comb that is not the first line
\* of the file and has no comment marker in the line before it is recorded as
\* file:line; an always @(...) line, an opener on the first line and an opener
\* after a line with a comment marker are never recorded.
C28_AlwaysFfComb ==
    CheckedBy("run_per_file_checks") =>
        MissingCommentAt(LAMBDA i :
            /\ Contains(ReadLines(TheFile)[i], "always_ff")
                  \/ Contains(ReadLines(TheFile)[i], "always_comb")
            /\ i > 1
            /\ ~HasCommentMarker(ReadLines(TheFile)[i - 1]))
\* an always_comb on line 1, an always @(*) on line 2 and an always_comb on
\* line 3, none after a comment: line 3 alone is recorded
C28_Witness ==
    /\ CheckedBy("run_per_file_checks")
    /\ fs[TheFile].data = "always_comb begin\nalways @(*) q <= d;\nalways_comb begin\n"
    /\ Item(best_practice_issues, "Missing comments before always blocks").content
            = "/w/b.sv:3"

(***************************************************************************)
(* Claims on the command line of a run (SpecRun) and on the store under    *)
(* record calls (Spec).                                                    *)
(***************************************************************************)
\* the existing .sv files that a line of one of the filelists names
NamedInFilelists ==
    {q \in DOMAIN fs :
        /\ EndsWith(q, ".sv")
        /\ \E k \in 1..Len(argv.filelists) :
              LET ls == Split(UniversalNewlines(fs[abspath(argv.filelists[k])].data), "\n")
              IN  \E n \in 1..Len(ls) :
                      Strip(ls[n]) # "" /\ abspath(Strip(ls[n])) = q}
\* C29: with filelists and no positional target on the command line the files
\* that are linted are exactly the existing .sv files the filelists name;
\* nothing under rtl/ is added.
C29_FilelistOnly ==
    (pc # "main" /\ argv.given = <<>> /\ argv.filelists # <<>>) =>
        {sv_files[k] : k \in 1..Len(sv_files)} = NamedInFilelists

\* every issue of the dict d is in the dict e, with the same solution and with
\* a content that starts with the content it has in d
GrowsTo(d, e) ==
    \A k \in 1..Len(d) :
        /\ HasTitle(e, d[k].title)
        /\ StartsWith(Item(e, d[k].title).content, d[k].content)
        /\ Item(e, d[k].title).solution = d[k].solution
C30_GrowStep ==
    /\ fail => fail'
    /\ total_issues' >= total_issues
    /\ GrowsTo(critical_issues, critical_issues')
    /\ GrowsTo(style_issues, style_issues')
    /\ GrowsTo(best_practice_issues, best_practice_issues')
    /\ GrowsTo(performance_issues, performance_issues')
\* C30: across the calls the store only grows: fail stays true once it is
\* true, total_issues never decreases, no title leaves its bucket, the content
\* of an issue at one moment is a prefix of its content at every later moment,
\* and its solution stays the one it was created with.
C30_StoreGrows == [][C30_GrowStep]_vars
\* one issue recorded three times: its content has grown twice, its solution is
\* the first one and it counts once
C30_Witness ==
    /\ ncalls = 3
    /\ fail /\ total_issues = 1
    /\ HasTitle(performance_issues, "Tabs detected")
    /\ Item(performance_issues, "Tabs detected").content
            = "/w/b.sv\n/w/rtl/a.sv:2: x\n/w/b.sv"
    /\ Item(performance_issues, "Tabs detected").solution = "first solution"

====
